---- MODULE Spec2Model ----
(***************************************************************************)
(* Model of the shopsight product search backend:                          *)
(*   app/services/confidence_scorer.py  (ConfidenceScorer)                 *)
(*   app/services/product_search.py     (ProductSearchService)             *)
(*   app/models/responses.py            (Product)                          *)
(*                                                                         *)
(* Encoding of Python values.  A str is a tuple of one-character strings   *)
(* (<<"N","i","k","e">>).  The values that are not strings are tuples      *)
(* holding one reserved multi-character token, so that every value is      *)
(* comparable with every other: NoneVal is Python's None, IntVal a         *)
(* non-zero int, ListVal a non-empty list, Absent a dictionary key that    *)
(* is missing.  Scores are integers: sub-scores in hundredths, the final   *)
(* confidence in thousandths.                                              *)
(***************************************************************************)
EXTENDS Integers, Sequences, FiniteSets, TLC

VARIABLES
    text,           \* matcher call: first argument
    word,           \* matcher call: second argument
    matched,        \* matcher call: the three results, or Unset
    product,        \* score_product call: product dictionary
    parsed_query,   \* score_product call: parsed query dictionary
    scored,         \* score_product call: sub-scores and outcome, or Unset
    catalog,        \* rows of the articles parquet file, in storage order
    request,        \* search_with_confidence call: its arguments
    response,       \* search_with_confidence call: locals and outcome, or Unset
    conn            \* DuckDBClient.conn: the result its last execute holds
                    \* (followed where calls run concurrently), or Unset

vars == <<text, word, matched, product, parsed_query, scored,
          catalog, request, response, conn>>

matcherVars == <<text, word, matched>>
scorerVars == <<product, parsed_query, scored>>
searchVars == <<catalog, request, response, conn>>

-----------------------------------------------------------------------------
(* Bounds of the model                                                     *)

MaxTextLen == 3
MaxWordLen == 2
MaxKeywords == 2
MaxCatalog == 3
MaxPage == 2
MaxPageSize == 2

-----------------------------------------------------------------------------
(* Python values                                                           *)

NoneVal == <<"<None>">>
IntVal == <<"<int 123>">>
ListVal == <<"<list ['Nike']>">>
Absent == <<"<absent>">>
Unset == [set |-> FALSE]

IsStr(v) == v \notin {NoneVal, IntVal, ListVal, Absent}

\* bool(v) is False: None and the empty str
Falsy(v) == v = NoneVal \/ v = <<>>

-----------------------------------------------------------------------------
(* Characters                                                              *)

UpperChars ==
    <<"A","B","C","D","E","F","G","H","I","J","K","L","M",
      "N","O","P","Q","R","S","T","U","V","W","X","Y","Z">>
LowerChars ==
    <<"a","b","c","d","e","f","g","h","i","j","k","l","m",
      "n","o","p","q","r","s","t","u","v","w","x","y","z">>
Digits == {"0","1","2","3","4","5","6","7","8","9"}

Range(s) == {s[i] : i \in DOMAIN s}

UpperSet == Range(UpperChars)
WordCharSet == UpperSet \cup Range(LowerChars) \cup Digits \cup {"_"}

\* str.lower() on the upper-case letters
LowerOf ==
    [c \in UpperSet |->
        LowerChars[CHOOSE i \in DOMAIN UpperChars : UpperChars[i] = c]]

\* str.lower() on one character
LowerChar(c) == IF c \in UpperSet THEN LowerOf[c] ELSE c

\* str.lower()
Lower(s) == [i \in DOMAIN s |-> LowerChar(s[i])]

\* the regular expression class \w
IsWordChar(c) == c \in WordCharSet

\* the regular expression class \s
IsSpace(c) == c \in {" ", "\t", "\n"}

\* the alternatives \s|- of the fuzzy pattern
IsSpaceOrHyphen(c) == IsSpace(c) \/ c = "-"

\* str.strip()
RECURSIVE LStrip(_)
LStrip(s) == IF s # <<>> /\ IsSpace(Head(s)) THEN LStrip(Tail(s)) ELSE s
RECURSIVE RStrip(_)
RStrip(s) ==
    IF s # <<>> /\ IsSpace(s[Len(s)]) THEN RStrip(SubSeq(s, 1, Len(s) - 1)) ELSE s
Strip(s) == RStrip(LStrip(s))

-----------------------------------------------------------------------------
(* Regular expression search, as re.search evaluates the two patterns      *)

\* pat occurs in s starting at index p
OccursAt(s, pat, p) ==
    /\ p >= 1
    /\ p + Len(pat) - 1 <= Len(s)
    /\ SubSeq(s, p, p + Len(pat) - 1) = pat

\* is the character at index p of s a \w character (FALSE outside the string)
WordCharAt(s, p) == p >= 1 /\ p <= Len(s) /\ IsWordChar(s[p])

\* \b at the gap in front of index p: exactly one neighbour is a \w character
WordBoundary(s, p) == WordCharAt(s, p - 1) # WordCharAt(s, p)

\* $ at the gap in front of index p: the end, or just before a final newline
AtDollar(s, p) == p = Len(s) + 1 \/ (p = Len(s) /\ s[p] = "\n")

\* re.search(r'\b' + re.escape(pat) + r'\b', s)
SearchWordBoundary(s, pat) ==
    \E p \in 1..Len(s) :
        /\ OccursAt(s, pat, p)
        /\ WordBoundary(s, p)
        /\ WordBoundary(s, p + Len(pat))

\* re.search(r'(^|\s|-)' + re.escape(pat) + r'($|\s|-)', s)
SearchFuzzyBoundary(s, pat) ==
    \E p \in 1..Len(s) :
        /\ OccursAt(s, pat, p)
        /\ (p = 1 \/ IsSpaceOrHyphen(s[p - 1]))
        /\ \/ AtDollar(s, p + Len(pat))
           \/ (p + Len(pat) <= Len(s) /\ IsSpaceOrHyphen(s[p + Len(pat)]))

-----------------------------------------------------------------------------
(* ConfidenceScorer: the three string matchers                             *)

\* mutant: substring search without the \b anchors
contains_word_substring(t, w) ==
    IF Falsy(t) \/ Falsy(w) THEN FALSE
    ELSE \E p \in 1..Len(t) : OccursAt(Lower(t), Lower(w), p)

contains_word(t, w) ==
    IF Falsy(t) \/ Falsy(w) THEN FALSE
    ELSE SearchWordBoundary(Lower(t), Lower(w))

\* mutant: only the word-boundary attempt, the compound-word pattern dropped
fuzzy_contains_word_only(t, w) ==
    IF Falsy(t) \/ Falsy(w) THEN FALSE
    ELSE contains_word(t, w)

fuzzy_contains(t, w) ==
    IF Falsy(t) \/ Falsy(w) THEN FALSE
    ELSE IF contains_word(t, w) THEN TRUE
    ELSE SearchFuzzyBoundary(Lower(t), Lower(w))

\* mutant: the comparison without .strip()
exact_match_no_strip(t, w) ==
    IF Falsy(t) \/ Falsy(w) THEN FALSE
    ELSE Lower(t) = Lower(w)

exact_match(t, w) ==
    IF Falsy(t) \/ Falsy(w) THEN FALSE
    ELSE Strip(Lower(t)) = Strip(Lower(w))

-----------------------------------------------------------------------------
(* ConfidenceScorer: sub-scores and score_product                          *)
(*                                                                         *)
(* A sub-score is [raised |-> FALSE, value |-> hundredths], the keyword    *)
(* sub-score [raised |-> FALSE, num |-> n, den |-> d] (the fraction n/d),  *)
(* and a call that ends in an exception is Raise.                          *)

BRAND_WEIGHT == 35
TYPE_WEIGHT == 30
COLOR_WEIGHT == 20
NAME_WEIGHT == 15

Raise == [raised |-> TRUE, error |-> "AttributeError"]
Ret(v) == [raised |-> FALSE, value |-> v]

\* word.lower() on a value that is no str: every matcher reaches it once the
\* guard "if not text or not word" has let the call through
LowerRaises(t, w) == ~Falsy(t) /\ ~Falsy(w) /\ ~IsStr(w)

\* one "if matcher(field, expected): return score" of a sub-score, followed
\* by the rest of the function
Tier(hit, t, w, score, rest) ==
    IF LowerRaises(t, w) THEN Raise
    ELSE IF hit THEN Ret(score)
    ELSE rest

\* mutant: the neutral value forgotten, an unspecified brand scores 0.0
score_brand_no_neutral(p, expected_brand) ==
    IF Falsy(expected_brand) THEN Ret(0)
    ELSE
    Tier(contains_word(p.name, expected_brand), p.name, expected_brand, 100,
    Tier(contains_word(p.index_name, expected_brand), p.index_name, expected_brand, 90,
    Tier(contains_word(p.department, expected_brand), p.department, expected_brand, 60,
    Ret(0))))

\* mutant: the name tested by substring, so that "Nike" is found in "Jannike"
score_brand_substring(p, expected_brand) ==
    IF Falsy(expected_brand) THEN Ret(50)
    ELSE
    Tier(contains_word_substring(p.name, expected_brand), p.name, expected_brand, 100,
    Tier(contains_word(p.index_name, expected_brand), p.index_name, expected_brand, 90,
    Tier(contains_word(p.department, expected_brand), p.department, expected_brand, 60,
    Ret(0))))

\* mutant: index_name tested before the name
score_brand_index_first(p, expected_brand) ==
    IF Falsy(expected_brand) THEN Ret(50)
    ELSE
    Tier(contains_word(p.index_name, expected_brand), p.index_name, expected_brand, 90,
    Tier(contains_word(p.name, expected_brand), p.name, expected_brand, 100,
    Tier(contains_word(p.department, expected_brand), p.department, expected_brand, 60,
    Ret(0))))

score_brand(p, expected_brand) ==
    IF Falsy(expected_brand) THEN Ret(50)
    ELSE
    Tier(contains_word(p.name, expected_brand), p.name, expected_brand, 100,
    Tier(contains_word(p.index_name, expected_brand), p.index_name, expected_brand, 90,
    Tier(contains_word(p.department, expected_brand), p.department, expected_brand, 60,
    Ret(0))))

\* mutant: the exact-match tier compares without folding case
score_type_case_sensitive(p, expected_type) ==
    IF Falsy(expected_type) THEN Ret(50)
    ELSE
    Tier(Strip(p.type) = Strip(expected_type), p.type, expected_type, 100,
    Tier(fuzzy_contains(p.type, expected_type), p.type, expected_type, 95,
    Tier(contains_word(p.name, expected_type), p.name, expected_type, 90,
    Tier(fuzzy_contains(p.product_group_name, expected_type),
         p.product_group_name, expected_type, 70,
    Tier(fuzzy_contains(p.garment_group_name, expected_type),
         p.garment_group_name, expected_type, 50,
    Ret(0))))))

\* mutant: the name tested before the fuzzy match of the type field
score_type_name_first(p, expected_type) ==
    IF Falsy(expected_type) THEN Ret(50)
    ELSE
    Tier(exact_match(p.type, expected_type), p.type, expected_type, 100,
    Tier(contains_word(p.name, expected_type), p.name, expected_type, 90,
    Tier(fuzzy_contains(p.type, expected_type), p.type, expected_type, 95,
    Tier(fuzzy_contains(p.product_group_name, expected_type),
         p.product_group_name, expected_type, 70,
    Tier(fuzzy_contains(p.garment_group_name, expected_type),
         p.garment_group_name, expected_type, 50,
    Ret(0))))))

score_type(p, expected_type) ==
    IF Falsy(expected_type) THEN Ret(50)
    ELSE
    Tier(exact_match(p.type, expected_type), p.type, expected_type, 100,
    Tier(fuzzy_contains(p.type, expected_type), p.type, expected_type, 95,
    Tier(contains_word(p.name, expected_type), p.name, expected_type, 90,
    Tier(fuzzy_contains(p.product_group_name, expected_type),
         p.product_group_name, expected_type, 70,
    Tier(fuzzy_contains(p.garment_group_name, expected_type),
         p.garment_group_name, expected_type, 50,
    Ret(0))))))

\* mutant: perceived_colour_value_name tested before
\* perceived_colour_master_name
score_color_value_first(p, expected_color) ==
    IF Falsy(expected_color) THEN Ret(50)
    ELSE
    Tier(exact_match(p.color, expected_color), p.color, expected_color, 100,
    Tier(fuzzy_contains(p.color, expected_color), p.color, expected_color, 95,
    Tier(fuzzy_contains(p.perceived_colour_value_name, expected_color),
         p.perceived_colour_value_name, expected_color, 80,
    Tier(fuzzy_contains(p.perceived_colour_master_name, expected_color),
         p.perceived_colour_master_name, expected_color, 90,
    Tier(contains_word(p.name, expected_color), p.name, expected_color, 70,
    Ret(0))))))

score_color(p, expected_color) ==
    IF Falsy(expected_color) THEN Ret(50)
    ELSE
    Tier(exact_match(p.color, expected_color), p.color, expected_color, 100,
    Tier(fuzzy_contains(p.color, expected_color), p.color, expected_color, 95,
    Tier(fuzzy_contains(p.perceived_colour_master_name, expected_color),
         p.perceived_colour_master_name, expected_color, 90,
    Tier(fuzzy_contains(p.perceived_colour_value_name, expected_color),
         p.perceived_colour_value_name, expected_color, 80,
    Tier(contains_word(p.name, expected_color), p.name, expected_color, 70,
    Ret(0))))))

\* the loop over the keywords: how many of them word-match field
RECURSIVE CountMatches(_, _)
CountMatches(field, keywords) ==
    IF keywords = <<>> THEN 0
    ELSE (IF contains_word(field, Head(keywords)) THEN 1 ELSE 0)
         + CountMatches(field, Tail(keywords))

\* mutant: the ratios taken over the distinct keywords
score_name_distinct_keywords(p, keywords) ==
    IF keywords = <<>> THEN [raised |-> FALSE, num |-> 1, den |-> 2]
    ELSE
        LET distinct == {keywords[i] : i \in DOMAIN keywords}
            matched_in_name == Cardinality({k \in distinct : contains_word(p.name, k)})
            matched_in_type == Cardinality({k \in distinct : contains_word(p.type, k)})
            total_keywords == Cardinality(distinct)
            num == 7 * matched_in_name + 3 * matched_in_type
            den == 10 * total_keywords
        IN  [raised |-> FALSE, num |-> IF num > den THEN den ELSE num, den |-> den]

\* (name_ratio * 0.7) + (type_ratio * 0.3), capped by min(1.0, score);
\* 0.5 for an empty keyword list
score_name(p, keywords) ==
    IF keywords = <<>> THEN [raised |-> FALSE, num |-> 1, den |-> 2]
    ELSE
        LET matched_in_name == CountMatches(p.name, keywords)
            matched_in_type == CountMatches(p.type, keywords)
            total_keywords == Len(keywords)
            num == 7 * matched_in_name + 3 * matched_in_type
            den == 10 * total_keywords
        IN  [raised |-> FALSE, num |-> IF num > den THEN den ELSE num, den |-> den]

\* max(0.0, min(1.0, confidence)) on the fraction num/den
Clamp01(num, den) == IF num < 0 THEN 0 ELSE IF num > den THEN den ELSE num

\* mutant: the value returned without round(confidence, 3)
Round3_not_rounded(num, den) == {[num |-> num, den |-> den]}

\* round(confidence, 3) on the fraction num/den, as fractions of 1000.  A
\* value that lies exactly between two thousandths has no exact binary
\* representation in general, and the float that stands for it rounds to
\* either neighbour: both are results.
Round3(num, den) ==
    LET q == (num * 1000) \div den
        r == (num * 1000) % den
    IN  IF 2 * r < den THEN {[num |-> q, den |-> 1000]}
        ELSE IF 2 * r > den THEN {[num |-> q + 1, den |-> 1000]}
        ELSE {[num |-> q, den |-> 1000], [num |-> q + 1, den |-> 1000]}

\* parsed_query.get("attributes", {}) followed by attributes.get(key): the
\* entry is a dict, is missing (the default {} is used), or is a value
\* without a get method
AttributesRaises(q) == q.attributes_kind \in {"None", "list"}
AttributeGet(q, key) ==
    IF q.attributes_kind = "absent" THEN NoneVal
    ELSE IF q.attributes[key] = Absent THEN NoneVal
    ELSE q.attributes[key]

\* mutant: the weights of the brand and of the type exchanged
score_product_weights_exchanged(p, q) ==
    IF AttributesRaises(q) THEN Raise
    ELSE
    LET brand_score == score_brand(p, AttributeGet(q, "brand"))
        type_score == score_type(p, AttributeGet(q, "type"))
        color_score == score_color(p, AttributeGet(q, "color"))
        name_score == score_name(p, q.keywords)
    IN  IF brand_score.raised \/ type_score.raised \/ color_score.raised
        THEN Raise
        ELSE
        LET den == 10000 * name_score.den
            num == (brand_score.value * TYPE_WEIGHT
                    + type_score.value * BRAND_WEIGHT
                    + color_score.value * COLOR_WEIGHT) * name_score.den
                   + name_score.num * 100 * NAME_WEIGHT
        IN  [raised |-> FALSE,
             brand_score |-> brand_score.value,
             type_score |-> type_score.value,
             color_score |-> color_score.value,
             name_score |-> [num |-> name_score.num, den |-> name_score.den],
             confidences |-> Round3(Clamp01(num, den), den)]

\* score_product: the four sub-scores in the order the code calls them, the
\* weighted sum, the clamp and the rounding.  confidences is the set of
\* values round() can return.
score_product(p, q) ==
    IF AttributesRaises(q) THEN Raise
    ELSE
    LET brand_score == score_brand(p, AttributeGet(q, "brand"))
        type_score == score_type(p, AttributeGet(q, "type"))
        color_score == score_color(p, AttributeGet(q, "color"))
        name_score == score_name(p, q.keywords)
    IN  IF brand_score.raised \/ type_score.raised \/ color_score.raised
        THEN Raise
        ELSE
        LET den == 10000 * name_score.den
            num == (brand_score.value * BRAND_WEIGHT
                    + type_score.value * TYPE_WEIGHT
                    + color_score.value * COLOR_WEIGHT) * name_score.den
                   + name_score.num * 100 * NAME_WEIGHT
        IN  [raised |-> FALSE,
             brand_score |-> brand_score.value,
             type_score |-> type_score.value,
             color_score |-> color_score.value,
             name_score |-> [num |-> name_score.num, den |-> name_score.den],
             confidences |-> Round3(Clamp01(num, den), den)]

-----------------------------------------------------------------------------
(* Inputs of the matcher calls                                             *)

\* every sequence over S of length 0..n
BoundedSeq(S, n) == UNION {[1..k -> S] : k \in 0..n}

\* a lower-case and an upper-case letter, whitespace, the hyphen, and a
\* character that is neither \w, whitespace nor hyphen
MatchAlphabet == {"a", "A", " ", "-", "+"}

JannikeWedge == <<"J","a","n","n","i","k","e"," ","w","e","d","g","e">>
RunningHyphenShoes == <<"r","u","n","n","i","n","g","-","s","h","o","e","s">>
NikeShoes == <<"N","i","k","e"," ","s","h","o","e","s">>
NikeShoesUpper == <<"N","I","K","E"," ","S","H","O","E","S">>
RunningShoes == <<"r","u","n","n","i","n","g"," ","s","h","o","e","s">>
NikeRunningShoes == <<"N","i","k","e"," ","R","u","n","n","i","n","g"," ","S","h","o","e","s">>
CppCode == <<"c","+","+"," ","c","o","d","e">>
PaddedShoes == <<" ","S","h","o","e","s"," ">>
UnderscoreNike == <<"_","n","i","k","e">>
AirMax90 == <<"A","i","r"," ","M","a","x"," ","9","0">>
Max9 == <<"m","a","x"," ","9">>
ShoeNewline == <<"s","h","o","e","\n">>
Nike == <<"N","i","k","e">>
NikeLower == <<"n","i","k","e">>
Shoe == <<"s","h","o","e">>
Running == <<"r","u","n","n","i","n","g">>
Cpp == <<"c","+","+">>
ShoesLower == <<"s","h","o","e","s">>

\* the strings of test_word_boundary_helper and of the fuzzy examples
ExamplePairs ==
    { <<JannikeWedge, Nike>>, <<RunningHyphenShoes, Shoe>>,
      <<NikeShoes, Nike>>, <<RunningShoes, Running>>,
      <<NikeRunningShoes, Nike>>, <<NikeShoesUpper, NikeLower>>,
      <<RunningHyphenShoes, Running>>, <<CppCode, Cpp>>,
      <<PaddedShoes, ShoesLower>>, <<UnderscoreNike, Nike>>,
      <<AirMax90, Max9>>, <<ShoeNewline, Shoe>> }

MatchTexts == BoundedSeq(MatchAlphabet, MaxTextLen) \cup {NoneVal}
MatchWords == BoundedSeq(MatchAlphabet, MaxWordLen) \cup {NoneVal}

InitMatch ==
    /\ \/ (text \in MatchTexts /\ word \in MatchWords)
       \/ \E pr \in ExamplePairs : text = pr[1] /\ word = pr[2]
    /\ matched = Unset
    /\ product = Unset /\ parsed_query = Unset /\ scored = Unset
    /\ catalog = <<>> /\ request = Unset /\ response = Unset /\ conn = Unset

Call_exact_match ==
    /\ matched' = [set |-> TRUE, fn |-> "exact_match",
                   result |-> exact_match(text, word)]
    /\ UNCHANGED <<text, word, scorerVars, searchVars>>

Call_contains_word ==
    /\ matched' = [set |-> TRUE, fn |-> "contains_word",
                   result |-> contains_word(text, word)]
    /\ UNCHANGED <<text, word, scorerVars, searchVars>>

Call_fuzzy_contains ==
    /\ matched' = [set |-> TRUE, fn |-> "fuzzy_contains",
                   result |-> fuzzy_contains(text, word)]
    /\ UNCHANGED <<text, word, scorerVars, searchVars>>

NextMatch == Call_exact_match \/ Call_contains_word \/ Call_fuzzy_contains

SpecMatch == InitMatch /\ [][NextMatch]_vars

-----------------------------------------------------------------------------
(* ProductSearchService: the predicate of _build_where_clause              *)

\* SQL LIKE: % stands for any run of characters, _ for any one character
RECURSIVE LikeMatch(_, _)
LikeMatch(s, pat) ==
    IF pat = <<>> THEN s = <<>>
    ELSE IF Head(pat) = "%"
         THEN \E k \in 0..Len(s) : LikeMatch(SubSeq(s, k + 1, Len(s)), Tail(pat))
    ELSE IF s = <<>> THEN FALSE
    ELSE (Head(pat) = "_" \/ Head(pat) = Head(s)) /\ LikeMatch(Tail(s), Tail(pat))

\* LOWER(column) LIKE '%keyword%'; a NULL column satisfies no predicate
ColumnLike(column, keyword) ==
    /\ column # NoneVal
    /\ LikeMatch(Lower(column), <<"%">> \o Lower(keyword) \o <<"%">>)

\* LOWER(column) = value.lower()
ColumnEquals(column, value) == column # NoneVal /\ Lower(column) = Lower(value)

\* filters.get(key) is truthy
FilterGiven(filters, key) == filters[key] # Absent /\ ~Falsy(filters[key])

\* the rows the WHERE clause selects: (keyword OR keyword ...) AND filter AND ...
WhereMatches(row, keywords, filters) ==
    /\ \/ keywords = <<>>
       \/ \E i \in DOMAIN keywords :
             ColumnLike(row.name, keywords[i]) \/ ColumnLike(row.type, keywords[i])
    /\ FilterGiven(filters, "department") =>
          ColumnEquals(row.department, filters.department)
    /\ FilterGiven(filters, "color") => ColumnEquals(row.color, filters.color)
    /\ FilterGiven(filters, "type") => ColumnEquals(row.type, filters.type)

\* mutant: the LIMIT left out
Take_unlimited(s, n) == s

\* s[:n]
Take(s, n) == SubSeq(s, 1, IF n < Len(s) THEN n ELSE Len(s))

-----------------------------------------------------------------------------
(* ProductSearchService.search_with_confidence                             *)

CANDIDATE_CAP == 500
CANDIDATE_FACTOR == 25

\* candidate_limit = min(500, page_size * 25)
CandidateLimit(page_size) ==
    IF page_size * CANDIDATE_FACTOR < CANDIDATE_CAP
    THEN page_size * CANDIDATE_FACTOR
    ELSE CANDIDATE_CAP

\* {**product, "confidence_score": confidence}
WithScore(row, confidence) ==
    [article_id |-> row.article_id, name |-> row.name, type |-> row.type,
     color |-> row.color, department |-> row.department,
     product_group_name |-> row.product_group_name,
     garment_group_name |-> row.garment_group_name,
     index_name |-> row.index_name,
     perceived_colour_master_name |-> row.perceived_colour_master_name,
     perceived_colour_value_name |-> row.perceived_colour_value_name,
     image_url |-> row.image_url,
     confidence_score |-> confidence]

\* a >= b on fractions
ScoreGE(a, b) == a.num * b.den >= b.num * a.den
ScoreGT(a, b) == a.num * b.den > b.num * a.den

\* mutant: the threshold compared with > instead of >=
FilterByConfidence_strict(scored_products, min_confidence) ==
    SelectSeq(scored_products,
              LAMBDA p : ScoreGT(p.confidence_score, min_confidence))

\* [p for p in scored_products if p["confidence_score"] >= min_confidence]
FilterByConfidence(scored_products, min_confidence) ==
    SelectSeq(scored_products,
              LAMBDA p : ScoreGE(p.confidence_score, min_confidence))

\* mutant: the elements of equal score in reverse order
SameScoreRun_reversed(s, score) ==
    LET run == SelectSeq(s, LAMBDA p : p.confidence_score = score)
    IN  [k \in DOMAIN run |-> run[Len(run) + 1 - k]]

\* the elements of s that have the given score, in the order they have in s
\* (list.sort is stable, also with reverse=True)
SameScoreRun(s, score) == SelectSeq(s, LAMBDA p : p.confidence_score = score)

\* the runs of the given scores, the highest score first
RECURSIVE SortByScores(_, _)
SortByScores(s, scores) ==
    IF scores = {} THEN <<>>
    ELSE LET top == CHOOSE v \in scores : \A w \in scores : ScoreGE(v, w)
         IN  SameScoreRun(s, top) \o SortByScores(s, scores \ {top})

\* mutant: the runs of the given scores, the lowest score first
RECURSIVE SortByScoresAscending(_, _)
SortByScoresAscending(s, scores) ==
    IF scores = {} THEN <<>>
    ELSE LET low == CHOOSE v \in scores : \A w \in scores : ScoreGE(w, v)
         IN  SameScoreRun(s, low) \o SortByScoresAscending(s, scores \ {low})

\* mutant: the sort without reverse=True
SortDescending_no_reverse(s) ==
    SortByScoresAscending(s, {s[i].confidence_score : i \in DOMAIN s})

\* list.sort(key=lambda p: p["confidence_score"], reverse=True)
SortDescending(s) ==
    SortByScores(s, {s[i].confidence_score : i \in DOMAIN s})

\* filtered_products[start:end]
Slice(s, start, end) ==
    IF start >= Len(s) THEN <<>>
    ELSE SubSeq(s, start + 1, IF end < Len(s) THEN end ELSE Len(s))

\* Product(article_id=..., ..., confidence_score=...): the model declares
\* article_id, name, type, color, department, price_range and image_url; it
\* declares no confidence_score, and a keyword that names no field is
\* dropped.  name, type, color and department must be str.
ProductValid(p) ==
    IsStr(p.name) /\ IsStr(p.type) /\ IsStr(p.color) /\ IsStr(p.department)
MakeProduct(p) ==
    [article_id |-> p.article_id, name |-> p.name, type |-> p.type,
     color |-> p.color, department |-> p.department,
     price_range |-> NoneVal, image_url |-> p.image_url]

\* the fields of a Product object
ProductFields ==
    {"article_id", "name", "type", "color", "department", "price_range", "image_url"}

\* the results round() can give to the candidates of one batch: one value per
\* candidate, and the same value for candidates with the same sub-scores
ScoreChoices(results) ==
    LET distinct == {results[i] : i \in DOMAIN results}
        picks == {f \in [distinct -> UNION {r.confidences : r \in distinct}] :
                     \A r \in distinct : f[r] \in r.confidences}
    IN  {[i \in DOMAIN results |-> f[results[i]]] : f \in picks}

\* search_with_confidence once the storage query has returned its rows and
\* round() has given the scores sc
SearchLocals(candidates, sc, page, page_size, min_confidence) ==
    LET scored_products == [i \in DOMAIN candidates |-> WithScore(candidates[i], sc[i])]
        filtered_products ==
            SortDescending(FilterByConfidence(scored_products, min_confidence))
        total_count == Len(filtered_products)
        start == (page - 1) * page_size
        end == start + page_size
        paginated_products == Slice(filtered_products, start, end)
    IN  [candidates |-> candidates,
         scored_products |-> scored_products,
         filtered_products |-> filtered_products,
         total_count |-> total_count,
         paginated_products |-> paginated_products]

-----------------------------------------------------------------------------
(* Claims about the string matchers (checked under SpecMatch)              *)

NonEmptyArgs == ~Falsy(text) /\ ~Falsy(word)

Returned(fn) == matched.set /\ matched.fn = fn

\* the ways to write t as pre \o w \o post: the lengths of pre
Splits(t, w) ==
    {i \in 0..Len(t) :
        i + Len(w) <= Len(t) /\ SubSeq(t, i + 1, i + Len(w)) = w}

CharBefore(t, i) == IF i = 0 THEN <<>> ELSE <<t[i]>>
CharAfter(t, w, i) == IF i + Len(w) = Len(t) THEN <<>> ELSE <<t[i + Len(w) + 1]>>

\* c is absent or not a word character (c is <<>> or a one-character tuple)
AbsentOrNonWord(c) == c = <<>> \/ ~IsWordChar(c[1])

\* c is absent, whitespace or a hyphen
AbsentOrSpaceOrHyphen(c) == c = <<>> \/ IsSpace(c[1]) \/ c[1] = "-"

\* w occurs in t, compared case-insensitively, with a character that is
\* absent or a non-word character on both sides
OccursBetweenNonWord(t, w) ==
    \E i \in Splits(Lower(t), Lower(w)) :
        /\ AbsentOrNonWord(CharBefore(Lower(t), i))
        /\ AbsentOrNonWord(CharAfter(Lower(t), Lower(w), i))

\* w occurs in t, compared case-insensitively, at a place where the
\* character before is absent or a non-word character exactly when w begins
\* with a word character, and the character after is absent or a non-word
\* character exactly when w ends with a word character
OccursBetweenBoundaries(t, w) ==
    \E i \in Splits(Lower(t), Lower(w)) :
        /\ AbsentOrNonWord(CharBefore(Lower(t), i)) = IsWordChar(Lower(w)[1])
        /\ AbsentOrNonWord(CharAfter(Lower(t), Lower(w), i))
               = IsWordChar(Lower(w)[Len(w)])

\* w occurs in t, compared case-insensitively, preceded by the start of the
\* string, whitespace or a hyphen and followed by the end, whitespace or a
\* hyphen
OccursBetweenSpaceOrHyphen(t, w) ==
    \E i \in Splits(Lower(t), Lower(w)) :
        /\ AbsentOrSpaceOrHyphen(CharBefore(Lower(t), i))
        /\ AbsentOrSpaceOrHyphen(CharAfter(Lower(t), Lower(w), i))

\* s without the whitespace around it, located by the first and the last
\* character that is not whitespace
Trimmed(s) ==
    LET keep == {i \in DOMAIN s : ~IsSpace(s[i])}
    IN  IF keep = {} THEN <<>>
        ELSE SubSeq(s, CHOOSE i \in keep : \A j \in keep : i <= j,
                       CHOOSE i \in keep : \A j \in keep : i >= j)

\* the results the tests and the specification give for named strings
WordExamples ==
    /\ (text = JannikeWedge /\ word = Nike) => ~matched.result
    /\ (text = RunningHyphenShoes /\ word = Shoe) => ~matched.result
    /\ (text = NikeShoes /\ word = Nike) => matched.result
    /\ (text = NikeShoesUpper /\ word = NikeLower) => matched.result
    /\ (text = RunningShoes /\ word = Running) => matched.result
    /\ (text = NikeRunningShoes /\ word = Nike) => matched.result

\* C2 as stated: for every non-empty text and term, _contains_word is true
\* exactly when the term occurs in the text, case-insensitively, with an
\* absent or non-word character just before it and just after it, and the
\* four named examples come out as stated.
C2_ContainsWordNonWordNeighbours ==
    (Returned("contains_word") /\ NonEmptyArgs) =>
        /\ matched.result = OccursBetweenNonWord(text, word)
        /\ WordExamples

\* C2 amended: _contains_word is true exactly when the term occurs in the
\* text, case-insensitively, at a place with a word boundary on both sides:
\* the neighbour before (after) is absent or a non-word character exactly
\* when the term's first (last) character is a word character.  For a term
\* that begins and ends with a word character this is the stated condition;
\* the four named examples come out as stated.
C2_ContainsWordBoundaries ==
    (Returned("contains_word") /\ NonEmptyArgs) =>
        /\ matched.result = OccursBetweenBoundaries(text, word)
        /\ (IsWordChar(word[1]) /\ IsWordChar(word[Len(word)]))
              => matched.result = OccursBetweenNonWord(text, word)
        /\ WordExamples

\* C2 witness: a term that begins with a non-word character was found
\* between two word characters
C2_Witness ==
    /\ Returned("contains_word") /\ NonEmptyArgs
    /\ matched.result
    /\ ~IsWordChar(word[1])
    /\ Len(text) > Len(word)

C4_EmptyAndExact ==
    matched.set =>
        /\ (Falsy(text) \/ Falsy(word)) => ~matched.result
        /\ (matched.fn = "exact_match" /\ NonEmptyArgs) =>
              matched.result = (Lower(Trimmed(text)) = Lower(Trimmed(word)))

\* C4 witness: an exact match that needed both the trimming and the folding
C4_Witness ==
    /\ Returned("exact_match") /\ NonEmptyArgs
    /\ matched.result
    /\ text # word
    /\ Lower(text) # Lower(word)
    /\ Trimmed(text) # Trimmed(word)

\* C4 witness of the guard: a call with an empty argument has returned
C4_WitnessEmpty ==
    /\ matched.set
    /\ Falsy(text) /\ ~Falsy(word)

-----------------------------------------------------------------------------
(* Inputs of the score_product calls                                       *)

NikeRunningShoesElite == <<"N","i","k","e"," ","R","u","n","n","i","n","g"," ","S","h","o","e","s"," ","E","l","i","t","e">>
JannikeWedgeNEW == <<"J","a","n","n","i","k","e"," ","w","e","d","g","e"," ","N","E","W">>
Shoes == <<"S","h","o","e","s">>
Wedge == <<"W","e","d","g","e">>
Black == <<"B","l","a","c","k">>
BlackLower == <<"b","l","a","c","k">>
Sport == <<"S","p","o","r","t">>
Divided == <<"D","i","v","i","d","e","d">>
Dark == <<"D","a","r","k">>

\* the product of test_nike_actual_match
NikeProduct ==
    [name |-> NikeRunningShoesElite, type |-> Shoes, color |-> Black,
     department |-> Sport, product_group_name |-> Shoes,
     garment_group_name |-> Shoes, index_name |-> Nike,
     perceived_colour_master_name |-> Black,
     perceived_colour_value_name |-> Dark]

\* the product of test_nike_vs_jannike
JannikeProduct ==
    [name |-> JannikeWedgeNEW, type |-> Wedge, color |-> Black,
     department |-> Shoes, product_group_name |-> Shoes,
     garment_group_name |-> Shoes, index_name |-> Divided,
     perceived_colour_master_name |-> Black,
     perceived_colour_value_name |-> Dark]

\* a row whose every string column is empty, and one whose every column is NULL
EmptyProduct ==
    [name |-> <<>>, type |-> <<>>, color |-> <<>>, department |-> <<>>,
     product_group_name |-> <<>>, garment_group_name |-> <<>>,
     index_name |-> <<>>, perceived_colour_master_name |-> <<>>,
     perceived_colour_value_name |-> <<>>]
NullProduct ==
    [name |-> NoneVal, type |-> NoneVal, color |-> NoneVal, department |-> NoneVal,
     product_group_name |-> NoneVal, garment_group_name |-> NoneVal,
     index_name |-> NoneVal, perceived_colour_master_name |-> NoneVal,
     perceived_colour_value_name |-> NoneVal]

\* products put together from the columns of the two test products
Products ==
    [name : {NikeRunningShoesElite, JannikeWedgeNEW, <<>>},
     type : {Shoes, Wedge, RunningHyphenShoes},
     color : {Black},
     department : {Shoes},
     product_group_name : {Shoes, <<>>},
     garment_group_name : {Shoes},
     index_name : {Nike, Divided},
     perceived_colour_master_name : {Black},
     perceived_colour_value_name : {Dark}]
    \cup {NikeProduct, JannikeProduct, EmptyProduct, NullProduct}

\* the attributes dictionaries: each key missing, None, empty, a str, or a
\* value that is no str
AttributeDicts ==
    [brand : {Absent, NoneVal, <<>>, Nike, IntVal},
     type : {Absent, <<>>, ShoesLower, ListVal},
     color : {Absent, NoneVal, <<>>, BlackLower}]

NoAttributes == [brand |-> Absent, type |-> Absent, color |-> Absent]

KeywordVocabulary == {Nike, ShoesLower}

\* the keywords of the two tests
TestKeywords == <<Nike, Running, ShoesLower>>

KeywordLists == BoundedSeq(KeywordVocabulary, MaxKeywords) \cup {TestKeywords}

ParsedQueries ==
    [attributes_kind : {"dict"}, attributes : AttributeDicts, keywords : KeywordLists]
    \cup [attributes_kind : {"absent", "None", "list"},
          attributes : {NoAttributes}, keywords : KeywordLists]

\* the parsed query of the two tests: brand 'Nike', type 'shoes', color None
TestQuery ==
    [attributes_kind |-> "dict",
     attributes |-> [brand |-> Nike, type |-> ShoesLower, color |-> NoneVal],
     keywords |-> TestKeywords]

InitScore ==
    /\ product \in Products
    /\ parsed_query \in ParsedQueries
    /\ scored = Unset
    /\ text = <<>> /\ word = <<>> /\ matched = Unset
    /\ catalog = <<>> /\ request = Unset /\ response = Unset /\ conn = Unset

\* ConfidenceScorer.score_product returns
Call_score_product ==
    LET r == score_product(product, parsed_query)
    IN  /\ ~r.raised
        /\ \E c \in r.confidences :
              scored' = [set |-> TRUE, raised |-> FALSE,
                         brand_score |-> r.brand_score,
                         type_score |-> r.type_score,
                         color_score |-> r.color_score,
                         name_score |-> r.name_score,
                         confidence |-> c]
        /\ UNCHANGED <<product, parsed_query, matcherVars, searchVars>>

\* ConfidenceScorer.score_product ends in an exception
Call_score_product_raises ==
    LET r == score_product(product, parsed_query)
    IN  /\ r.raised
        /\ scored' = [set |-> TRUE, raised |-> TRUE, error |-> r.error]
        /\ UNCHANGED <<product, parsed_query, matcherVars, searchVars>>

NextScore == Call_score_product \/ Call_score_product_raises

SpecScore == InitScore /\ [][NextScore]_vars

-----------------------------------------------------------------------------
(* Claims about score_product (checked under SpecScore)                    *)

ScoreReturned == scored.set /\ ~scored.raised

\* the query is a ParsedQuery of the data model: attributes is a dict or
\* missing, and each of brand, type, color is missing, None or a str
WellFormedQuery(q) ==
    /\ q.attributes_kind \in {"dict", "absent"}
    /\ \A key \in {"brand", "type", "color"} :
          q.attributes[key] \in {Absent, NoneVal} \/ IsStr(q.attributes[key])

\* the query does not specify the attribute: the key is missing, its value
\* is None, or its value is the empty string
Unspecified(q, key) ==
    \/ q.attributes_kind = "absent"
    \/ /\ q.attributes_kind = "dict"
       /\ q.attributes[key] \in {Absent, NoneVal, <<>>}

\* the attribute is missing or malformed: unspecified, a value that is no
\* str, or an entry of an attributes value that is no mapping
AbsentOrMalformed(q, key) ==
    \/ Unspecified(q, key)
    \/ q.attributes_kind \in {"None", "list"}
    \/ ~IsStr(q.attributes[key])

\* the sub-score function of an attribute, applied to the call's arguments
SubScore(key) ==
    CASE key = "brand" -> score_brand(product, AttributeGet(parsed_query, "brand"))
      [] key = "type" -> score_type(product, AttributeGet(parsed_query, "type"))
      [] key = "color" -> score_color(product, AttributeGet(parsed_query, "color"))

\* the sub-score of an attribute that the call has returned
ReturnedSubScore(key) ==
    CASE key = "brand" -> scored.brand_score
      [] key = "type" -> scored.type_score
      [] key = "color" -> scored.color_score

\* C1: for every candidate row and every parsed query, score_product returns
\* a value c with 0.0 <= c <= 1.0 rounded to 3 decimal places: c * 1000 is
\* an integer between 0 and 1000.
C1_ConfidenceInUnitIntervalRounded ==
    scored.set =>
        /\ WellFormedQuery(parsed_query) => ~scored.raised
        /\ ~scored.raised =>
              /\ scored.confidence.den > 0
              /\ 0 <= scored.confidence.num
              /\ scored.confidence.num <= scored.confidence.den
              /\ (scored.confidence.num * 1000) % scored.confidence.den = 0

\* C1 witness: a score strictly inside the interval, computed from a keyword
\* sub-score that is not a whole number of thousandths before the rounding
C1_Witness ==
    /\ ScoreReturned
    /\ WellFormedQuery(parsed_query)
    /\ scored.confidence.num > 0
    /\ scored.confidence.num < scored.confidence.den
    /\ (scored.name_score.num * 150) % scored.name_score.den # 0

\* C5: when the parsed query does not specify brand, type or color (key
\* absent, None, or empty string), the sub-score of that attribute is
\* exactly 0.5 for every candidate.
C5_UnspecifiedIsNeutral ==
    scored.set =>
        \A key \in {"brand", "type", "color"} :
            Unspecified(parsed_query, key) =>
                /\ SubScore(key) = Ret(50)
                /\ ~scored.raised => ReturnedSubScore(key) = 50

\* C5 witness: a call returned with the brand unspecified and the type and
\* the color specified and matching, on a product whose name holds the brand
C5_Witness ==
    /\ ScoreReturned
    /\ Unspecified(parsed_query, "brand")
    /\ product = NikeProduct
    /\ scored.brand_score = 50
    /\ scored.type_score = 100
    /\ scored.color_score = 100

\* C6 as stated: score_product never fails because of a query attribute; an
\* absent or malformed brand, type or color makes the affected sub-score the
\* neutral 0.5 and score_product still returns a score.
C6_MalformedAttributeIsNeutral ==
    scored.set =>
        /\ ~scored.raised
        /\ \A key \in {"brand", "type", "color"} :
              AbsentOrMalformed(parsed_query, key) => ReturnedSubScore(key) = 50

\* C7: the query of the tests against the product of test_nike_actual_match:
\* brand sub-score 1.0, type sub-score 1.0, confidence above 0.8.
C7_NikeProductScoresHigh ==
    (scored.set /\ product = NikeProduct /\ parsed_query = TestQuery) =>
        /\ ~scored.raised
        /\ scored.brand_score = 100
        /\ scored.type_score = 100
        /\ scored.confidence.num * 10 > 8 * scored.confidence.den

\* C7 witness: that call returned 0.87
C7_Witness ==
    /\ ScoreReturned
    /\ product = NikeProduct /\ parsed_query = TestQuery
    /\ scored.confidence = [num |-> 870, den |-> 1000]

\* C8 as stated: the query of the tests against the product of
\* test_nike_vs_jannike: brand sub-score 0.0, type sub-score 0.0, confidence
\* below 0.5.
C8_JannikeTypeScoreZero ==
    (scored.set /\ product = JannikeProduct /\ parsed_query = TestQuery) =>
        /\ ~scored.raised
        /\ scored.brand_score = 0
        /\ scored.type_score = 0
        /\ scored.confidence.num * 10 < 5 * scored.confidence.den

\* C8 amended: for that query and product the brand sub-score is 0.0, the
\* type sub-score is 0.7 ('shoes' matches neither the type 'Wedge' nor the
\* name, and fuzzy-matches the product_group_name 'Shoes'), and the
\* confidence is below 0.5.
C8_JannikeProductScoresLow ==
    (scored.set /\ product = JannikeProduct /\ parsed_query = TestQuery) =>
        /\ ~scored.raised
        /\ scored.brand_score = 0
        /\ scored.type_score = 70
        /\ scored.confidence.num * 10 < 5 * scored.confidence.den

\* C8 witness: that call returned 0.31
C8_Witness ==
    /\ ScoreReturned
    /\ product = JannikeProduct /\ parsed_query = TestQuery
    /\ scored.confidence = [num |-> 310, den |-> 1000]

\* C21: score_product returns round3(clamp01(0.35*brand + 0.30*type
\* + 0.20*color + 0.15*keyword)), where the four sub-scores are those of
\* _score_brand, _score_type, _score_color and _score_name, each in [0,1],
\* and the four weights sum to 1.0.  Sub-scores are in hundredths, the
\* keyword sub-score is a fraction, and a value rounded to 3 places is a
\* thousandth at most 0.0005 away.
C21_WeightedSumClampedRounded ==
    ScoreReturned =>
        LET b == scored.brand_score
            t == scored.type_score
            c == scored.color_score
            k == scored.name_score
            den == 10000 * k.den
            sum == (35 * b + 30 * t + 20 * c) * k.den + 1500 * k.num
            clamped == IF sum < 0 THEN 0 ELSE IF sum > den THEN den ELSE sum
            diff == scored.confidence.num * den - 1000 * clamped
        IN  /\ BRAND_WEIGHT + TYPE_WEIGHT + COLOR_WEIGHT + NAME_WEIGHT = 100
            /\ <<BRAND_WEIGHT, TYPE_WEIGHT, COLOR_WEIGHT, NAME_WEIGHT>>
                  = <<35, 30, 20, 15>>
            /\ \A key \in {"brand", "type", "color"} :
                  /\ ReturnedSubScore(key) = SubScore(key).value
                  /\ ReturnedSubScore(key) \in 0..100
            /\ k.den > 0 /\ 0 <= k.num /\ k.num <= k.den
            /\ k.num * score_name(product, parsed_query.keywords).den
                  = score_name(product, parsed_query.keywords).num * k.den
            /\ scored.confidence.den = 1000
            /\ scored.confidence.num \in 0..1000
            /\ 2 * diff <= den /\ -2 * diff <= den

\* C21 witness: a call returned with four different sub-scores, none of
\* them neutral, and a confidence strictly between 0 and 1
C21_Witness ==
    /\ ScoreReturned
    /\ scored.brand_score = 0
    /\ scored.type_score = 95
    /\ scored.color_score = 100
    /\ scored.name_score.num > 0
    /\ scored.name_score.num < scored.name_score.den
    /\ scored.confidence.num > 0
    /\ scored.confidence.num < 1000

-----------------------------------------------------------------------------
(* The catalog and the search_with_confidence calls                        *)

ImageUrl == <<"u">>

\* a storage row: the columns of a product, its article_id and image_url
Row(id, p) ==
    [article_id |-> id, name |-> p.name, type |-> p.type, color |-> p.color,
     department |-> p.department,
     product_group_name |-> p.product_group_name,
     garment_group_name |-> p.garment_group_name,
     index_name |-> p.index_name,
     perceived_colour_master_name |-> p.perceived_colour_master_name,
     perceived_colour_value_name |-> p.perceived_colour_value_name,
     image_url |-> ImageUrl]

\* a product found by its type only
HyphenProduct ==
    [name |-> Wedge, type |-> RunningHyphenShoes, color |-> Black,
     department |-> Sport, product_group_name |-> <<>>,
     garment_group_name |-> <<>>, index_name |-> Divided,
     perceived_colour_master_name |-> Black,
     perceived_colour_value_name |-> Dark]

CatalogProducts == {NikeProduct, JannikeProduct, HyphenProduct}

\* the catalogs: article_id is the position of the row, and unique
Catalogs ==
    {[i \in DOMAIN ps |-> Row(i, ps[i])] : ps \in BoundedSeq(CatalogProducts, MaxCatalog)}

NoFilters == [department |-> Absent, color |-> Absent, type |-> Absent]
SearchFilters == {NoFilters, [NoFilters EXCEPT !.department = ShoesLower]}

SearchKeywords == {<<>>, <<ShoesLower>>}

\* no attribute and no keyword
EmptyQuery ==
    [attributes_kind |-> "dict", attributes |-> NoAttributes, keywords |-> <<>>]

\* a type and two keywords: the weighted sum can fall between two thousandths
TypeQuery ==
    [attributes_kind |-> "dict",
     attributes |-> [NoAttributes EXCEPT !.type = ShoesLower],
     keywords |-> <<Nike, ShoesLower>>]

\* a brand that is no str
IntBrandQuery ==
    [attributes_kind |-> "dict",
     attributes |-> [NoAttributes EXCEPT !.brand = IntVal],
     keywords |-> <<>>]

SearchQueries == {TestQuery, EmptyQuery, TypeQuery, IntBrandQuery}

\* min_confidence
MinConfidences ==
    {[num |-> n, den |-> 1000] : n \in {0, 415, 500, 1000}}

\* the columns of a row that the scorer and the WHERE clause read
ProductOf(row) ==
    [name |-> row.name, type |-> row.type, color |-> row.color,
     department |-> row.department,
     product_group_name |-> row.product_group_name,
     garment_group_name |-> row.garment_group_name,
     index_name |-> row.index_name,
     perceived_colour_master_name |-> row.perceived_colour_master_name,
     perceived_colour_value_name |-> row.perceived_colour_value_name]

\* WhereMatches and score_product on the products and requests of the
\* model, evaluated once: neither reads article_id or image_url
WhereTable ==
    [p \in CatalogProducts |-> [k \in SearchKeywords |-> [f \in SearchFilters |->
        WhereMatches(p, k, f)]]]
ScoreTable ==
    [p \in CatalogProducts |-> [q \in SearchQueries |-> score_product(p, q)]]

\* SELECT ... FROM read_parquet(?) WHERE ... LIMIT ?: the first limit rows
\* that satisfy the WHERE clause, in storage order
ExecuteSelect(rows, keywords, filters, limit) ==
    LET Where(row) == WhereTable[ProductOf(row)][keywords][filters]
    IN  Take(SelectSeq(rows, Where), limit)

\* what makes a storage query fail
StorageFailures == {"IO Error", "Parser Error"}

\* no storage query of the call failed
NoFailure == [call |-> 0, cause |-> ""]

\* DuckDBClient.execute when the query fails: the error is logged and a
\* DatabaseException carrying its text is raised
DbExecuteRaises(cause) ==
    [error |-> "DatabaseException", message |-> cause]

Requests ==
    [set : {TRUE}, keywords : SearchKeywords, parsed_query : SearchQueries,
     filters : SearchFilters, page : 1..MaxPage, page_size : 1..MaxPageSize,
     min_confidence : MinConfidences]

Init ==
    /\ catalog \in Catalogs
    /\ request \in Requests
    /\ response = Unset /\ conn = Unset
    /\ text = <<>> /\ word = <<>> /\ matched = Unset
    /\ product = Unset /\ parsed_query = Unset /\ scored = Unset

\* search_with_confidence when self.db.execute raises: the exception is
\* logged and raised again
SearchWithConfidence_StorageFails ==
    /\ ~response.set
    /\ \E cause \in StorageFailures :
          response' = [set |-> TRUE, op |-> "search_with_confidence",
                       outcome |-> "raised",
                       error |-> DbExecuteRaises(cause).error,
                       message |-> DbExecuteRaises(cause).message,
                       db_calls |-> 1,
                       failure |-> [call |-> 1, cause |-> cause],
                       fetched |-> FALSE]
    /\ UNCHANGED <<catalog, request, conn, matcherVars, scorerVars>>

\* search_with_confidence when the storage query returns its rows
SearchWithConfidence ==
    LET candidates ==
            ExecuteSelect(catalog, request.keywords, request.filters,
                          CandidateLimit(request.page_size))
        results ==
            [i \in DOMAIN candidates |->
                ScoreTable[ProductOf(candidates[i])][request.parsed_query]]
    IN  /\ ~response.set
        /\ IF \E i \in DOMAIN results : results[i].raised
           THEN \* score_products_batch raises
                response' = [set |-> TRUE, op |-> "search_with_confidence",
                             db_calls |-> 1, failure |-> NoFailure,
                             outcome |-> "raised",
                             error |-> "AttributeError", fetched |-> TRUE,
                             candidates |-> candidates, scored |-> FALSE]
           ELSE \E sc \in ScoreChoices(results) :
                LET l == SearchLocals(candidates, sc, request.page,
                                      request.page_size, request.min_confidence)
                    valid == \A i \in DOMAIN l.paginated_products :
                                ProductValid(l.paginated_products[i])
                    products == [i \in DOMAIN l.paginated_products |->
                                    MakeProduct(l.paginated_products[i])]
                    \* if products: [(p.name, p.confidence_score) ...]
                    log_raises ==
                        products # <<>> /\ "confidence_score" \notin ProductFields
                IN  response' =
                      [set |-> TRUE, op |-> "search_with_confidence",
                       db_calls |-> 1, failure |-> NoFailure,
                       outcome |-> IF valid /\ ~log_raises
                                   THEN "returned" ELSE "raised",
                       error |-> IF ~valid THEN "ValidationError"
                                 ELSE IF log_raises THEN "AttributeError"
                                 ELSE "",
                       fetched |-> TRUE,
                       scored |-> TRUE,
                       candidates |-> l.candidates,
                       scored_products |-> l.scored_products,
                       filtered_products |-> l.filtered_products,
                       total_count |-> l.total_count,
                       paginated_products |-> l.paginated_products,
                       products |-> IF valid THEN products ELSE <<>>]
        /\ UNCHANGED <<catalog, request, conn, matcherVars, scorerVars>>

Next == SearchWithConfidence \/ SearchWithConfidence_StorageFails

Spec == Init /\ [][Next]_vars

-----------------------------------------------------------------------------
(* Claims about search_with_confidence (checked under Spec)                *)

\* the call got its rows from storage and scored them: the filter, the sort
\* and the slice have run
Ranked == response.set /\ response.fetched /\ response.scored

\* the fetched candidates whose score is at least min_confidence
Passing ==
    {i \in DOMAIN response.scored_products :
        ScoreGE(response.scored_products[i].confidence_score, request.min_confidence)}

PassingIds == {response.scored_products[i].article_id : i \in Passing}

\* the position of a candidate in the rows the storage query returned
RetrievalIndex(item) ==
    CHOOSE i \in DOMAIN response.candidates :
        response.candidates[i].article_id = item.article_id

\* C9: total_count equals the number of fetched candidates whose score is
\* >= min_confidence: none that meets the threshold is dropped, none below
\* it is counted; every item of the page is one of those candidates.
C9_TotalCountIsPassingCount ==
    Ranked =>
        /\ response.total_count = Cardinality(Passing)
        /\ {response.filtered_products[k].article_id :
               k \in DOMAIN response.filtered_products} = PassingIds
        /\ \A k \in DOMAIN response.paginated_products :
              \E i \in Passing :
                 response.paginated_products[k] = response.scored_products[i]
        /\ \A k \in DOMAIN response.products :
              response.products[k].article_id \in PassingIds

\* C9 witness: a candidate below the threshold was left out, one exactly at
\* the threshold was kept, and the page holds an item
C9_Witness ==
    /\ Ranked
    /\ response.total_count < Len(response.candidates)
    /\ \E i \in Passing :
          response.scored_products[i].confidence_score = request.min_confidence
    /\ request.min_confidence.num > 0
    /\ response.paginated_products # <<>>

\* C10: the list that is paginated is sorted by descending confidence, and
\* candidates of equal confidence keep the order in which the storage query
\* returned them.
C10_SortedDescendingStable ==
    Ranked =>
        \A i, j \in DOMAIN response.filtered_products :
            i < j =>
                LET a == response.filtered_products[i]
                    b == response.filtered_products[j]
                IN  /\ ScoreGE(a.confidence_score, b.confidence_score)
                    /\ a.confidence_score = b.confidence_score
                          => RetrievalIndex(a) < RetrievalIndex(b)

\* C10 witness: the sort moved a later candidate in front of two candidates
\* of equal confidence
C10_Witness ==
    /\ Ranked
    /\ Len(response.filtered_products) >= 3
    /\ RetrievalIndex(response.filtered_products[1]) = 3
    /\ response.filtered_products[2].confidence_score
          = response.filtered_products[3].confidence_score

\* the slice of the ranked list the request asks for: the elements at the
\* indices [(page-1)*page_size, (page-1)*page_size + page_size) that exist
RequestedSlice ==
    LET start == (request.page - 1) * request.page_size
        idx == {k \in DOMAIN response.filtered_products :
                   start < k /\ k <= start + request.page_size}
    IN  [j \in 1..Cardinality(idx) |-> response.filtered_products[start + j]]

\* C11 as stated: for every page >= 1 and page_size >= 1 the call returns,
\* as its page, exactly the elements of the filtered, sorted list at the
\* indices [(page-1)*page_size, (page-1)*page_size + page_size) that exist;
\* past the end it returns an empty list with the unchanged total_count.
C11_ReturnedPageIsSlice ==
    Ranked =>
        /\ response.outcome = "returned"
        /\ response.total_count = Len(response.filtered_products)
        /\ [k \in DOMAIN response.products |-> response.products[k].article_id]
              = [k \in DOMAIN RequestedSlice |-> RequestedSlice[k].article_id]

\* C20 as stated: every item of the page returned by search_with_confidence
\* carries the confidence that score_product computed for it, readable by
\* the caller.
C20_PageItemsCarryConfidence ==
    (Ranked /\ response.paginated_products # <<>>) =>
        /\ response.outcome = "returned"
        /\ \A k \in DOMAIN response.products :
              /\ "confidence_score" \in DOMAIN response.products[k]
              /\ response.products[k].confidence_score
                    = response.paginated_products[k].confidence_score

-----------------------------------------------------------------------------
(* search_with_confidence on catalogs around the candidate limit           *)

\* how many rows more than the candidate limit a catalog holds at most
MaxOver == 1

\* the product of the row at position i: the three products in turn
ProductAt(i) ==
    CASE i % 3 = 1 -> NikeProduct
      [] i % 3 = 2 -> JannikeProduct
      [] OTHER -> HyphenProduct

\* a catalog of n rows
CatalogOfSize(n) == [i \in 1..n |-> Row(i, ProductAt(i))]

\* page sizes on both sides of the point where page_size * 25 reaches 500
CapPageSizes ==
    {1, CANDIDATE_CAP \div CANDIDATE_FACTOR, CANDIDATE_CAP \div CANDIDATE_FACTOR + 1}

\* catalog sizes from one below each candidate limit to MaxOver above it
CapCatalogSizes ==
    {CandidateLimit(ps) + d : ps \in CapPageSizes, d \in -1..MaxOver}

\* the first page, and a page past the last candidate
CapPages == {1, CANDIDATE_FACTOR + 1}

CapRequests ==
    [set : {TRUE}, keywords : SearchKeywords,
     parsed_query : {TestQuery},
     filters : {NoFilters}, page : CapPages, page_size : CapPageSizes,
     min_confidence : {[num |-> n, den |-> 1000] : n \in {0, 415}}]

InitCap ==
    /\ \E n \in CapCatalogSizes : catalog = CatalogOfSize(n)
    /\ request \in CapRequests
    /\ response = Unset /\ conn = Unset
    /\ text = <<>> /\ word = <<>> /\ matched = Unset
    /\ product = Unset /\ parsed_query = Unset /\ scored = Unset

SpecCap == InitCap /\ [][Next]_vars

\* the catalog rows that satisfy the WHERE clause of the request
MatchingRows ==
    SelectSeq(catalog,
              LAMBDA row : WhereMatches(ProductOf(row), request.keywords, request.filters))

\* C12: total_count never exceeds min(500, page_size * 25), even when more
\* catalog rows match the predicate.
C12_TotalCountWithinCandidateLimit ==
    Ranked =>
        /\ response.total_count <= CANDIDATE_CAP
        /\ response.total_count <= request.page_size * CANDIDATE_FACTOR
        /\ Len(response.candidates) <= CANDIDATE_CAP
        /\ Len(response.candidates) <= request.page_size * CANDIDATE_FACTOR

\* C12 witness: the call returned a total_count equal to the limit of 500
\* while more than 500 catalog rows match
C12_Witness ==
    /\ Ranked
    /\ response.outcome = "returned"
    /\ response.total_count = CANDIDATE_CAP
    /\ request.page_size * CANDIDATE_FACTOR > CANDIDATE_CAP
    /\ Len(MatchingRows) > CANDIDATE_CAP

-----------------------------------------------------------------------------
(* search_products: the pagination metadata                                *)

MaxTotalCount == 48
MaxRequestPage == 4

\* SearchRequest.page_size: Field(default=20, ge=1, le=100)
MIN_PAGE_SIZE == 1
MAX_PAGE_SIZE == 100

\* mutant: the division without the rounding up
TotalPages_floor(total_count, page_size) == total_count \div page_size

\* total_pages = (total_count + request.page_size - 1) // request.page_size
TotalPages(total_count, page_size) ==
    (total_count + page_size - 1) \div page_size

\* the arguments of PaginationInfo(...)
PaginationInfo(total_count, page, page_size) ==
    LET total_pages == TotalPages(total_count, page_size)
    IN  [set |-> TRUE,
         current_page |-> page,
         page_size |-> page_size,
         total_items |-> total_count,
         total_pages |-> total_pages,
         has_next |-> page < total_pages,
         has_prev |-> page > 1]

\* a validated SearchRequest, and the total_count the search returned
InitPagination ==
    /\ request \in [set : {TRUE}, total_count : 0..MaxTotalCount,
                    page : 1..MaxRequestPage,
                    page_size : MIN_PAGE_SIZE..MAX_PAGE_SIZE]
    /\ response = Unset /\ conn = Unset
    /\ catalog = <<>>
    /\ text = <<>> /\ word = <<>> /\ matched = Unset
    /\ product = Unset /\ parsed_query = Unset /\ scored = Unset

\* search_products, "Calculate pagination metadata"
BuildPagination ==
    /\ ~response.set
    /\ response' = PaginationInfo(request.total_count, request.page, request.page_size)
    /\ UNCHANGED <<catalog, request, conn, matcherVars, scorerVars>>

NextPagination == BuildPagination

SpecPagination == InitPagination /\ [][NextPagination]_vars

\* C13: total_pages = ceil(total_count / page_size), has_next = (page <
\* total_pages), has_prev = (page > 1); total_count 47 and page_size 20
\* give 3 pages, and page 3 has no next and has a previous page.
C13_PaginationMetadata ==
    response.set =>
        /\ response.total_pages * request.page_size >= request.total_count
        /\ (response.total_pages - 1) * request.page_size < request.total_count
        /\ response.has_next = (request.page < response.total_pages)
        /\ response.has_prev = (request.page > 1)
        /\ response.total_items = request.total_count
        /\ (request.total_count = 47 /\ request.page_size = 20) =>
              /\ response.total_pages = 3
              /\ request.page = 3 => (~response.has_next /\ response.has_prev)

\* C13 witness: 47 items in pages of 20, page 3
C13_Witness ==
    /\ response.set
    /\ request.total_count = 47 /\ request.page_size = 20 /\ request.page = 3
    /\ response.total_pages = 3
    /\ ~response.has_next
    /\ response.has_prev

-----------------------------------------------------------------------------
(* _build_where_clause: the rows its predicate selects                     *)

MaxKeywordLen == 2

\* the characters of the keywords and columns: a letter in both cases,
\* another letter, and the two characters LIKE gives a meaning to
WhereAlphabet == {"a", "A", "b", "_", "%"}

WhereColumns == {<<>>, <<"a">>, <<"A", "b">>, <<"b", "_", "a">>, NoneVal}

WhereRows ==
    [name : WhereColumns, type : {<<"a">>, <<"b">>, NoneVal},
     color : {Black}, department : {Shoes, NoneVal},
     product_group_name : {<<>>}, garment_group_name : {<<>>},
     index_name : {<<>>}, perceived_colour_master_name : {<<>>},
     perceived_colour_value_name : {<<>>}]

WhereKeywordLists ==
    {<<>>, <<<<"a">>, <<"b">>>>, <<<<"b">>, <<"A", "A">>>>}
        \cup {<<k>> : k \in BoundedSeq(WhereAlphabet, MaxKeywordLen)}

\* department, color and type filters, and a key the clause does not read
WhereFilters ==
    [department : {Absent, <<>>, ShoesLower}, color : {Absent, BlackLower},
     type : {Absent, <<"A">>}, price_max : {Absent, <<"1">>}]

InitWhere ==
    /\ \E r \in WhereRows : catalog = <<Row(1, r)>>
    /\ request \in [set : {TRUE}, keywords : WhereKeywordLists, filters : WhereFilters]
    /\ response = Unset /\ conn = Unset
    /\ text = <<>> /\ word = <<>> /\ matched = Unset
    /\ product = Unset /\ parsed_query = Unset /\ scored = Unset

\* the WHERE clause of _build_where_clause evaluated on the stored row
BuildWhereClause ==
    /\ ~response.set
    /\ response' = [set |-> TRUE,
                    selected |-> WhereMatches(ProductOf(catalog[1]),
                                              request.keywords, request.filters)]
    /\ UNCHANGED <<catalog, request, conn, matcherVars, scorerVars>>

NextWhere == BuildWhereClause

SpecWhere == InitWhere /\ [][NextWhere]_vars

\* w is a substring of the column, both with case folded; a NULL column has
\* no substring
IsSubstringOf(w, column) ==
    /\ column # NoneVal
    /\ \E p \in 1..(Len(column) + 1) : OccursAt(Lower(column), Lower(w), p)

\* the column equals the value with case folded
EqualsFolded(column, value) == column # NoneVal /\ Lower(column) = Lower(value)

\* C14 as stated: the predicate selects exactly the rows such that keywords
\* is empty or some keyword is a case-insensitive substring of the name or
\* of the type, and each of the filters department, color, type that is
\* given equals the row's field case-insensitively; no other key counts.
C14_WhereSelectsSubstringRows ==
    response.set =>
        LET row == catalog[1]
            keywords == request.keywords
            filters == request.filters
        IN  response.selected =
              (/\ \/ keywords = <<>>
                  \/ \E i \in DOMAIN keywords :
                        \/ IsSubstringOf(keywords[i], row.name)
                        \/ IsSubstringOf(keywords[i], row.type)
               /\ FilterGiven(filters, "department") =>
                     EqualsFolded(row.department, filters.department)
               /\ FilterGiven(filters, "color") =>
                     EqualsFolded(row.color, filters.color)
               /\ FilterGiven(filters, "type") =>
                     EqualsFolded(row.type, filters.type))

-----------------------------------------------------------------------------
(* ProductSearchService.search, get_count and get_all_article_ids          *)

\* mutant: the OFFSET left out
ExecuteSelectPage_no_offset(rows, keywords, filters, limit, offset) ==
    ExecuteSelect(rows, keywords, filters, limit)

\* SELECT ... WHERE ... LIMIT ? OFFSET ?: of the rows that satisfy the WHERE
\* clause, in storage order, up to limit rows after the first offset rows
ExecuteSelectPage(rows, keywords, filters, limit, offset) ==
    LET matching == SelectSeq(rows,
                        LAMBDA row : WhereTable[ProductOf(row)][keywords][filters])
    IN  Slice(matching, offset, offset + limit)

\* SELECT COUNT(*) ... WHERE ...: one row holding the number of rows that
\* satisfy the WHERE clause; get_count returns result[0][0]
ExecuteCount(rows, keywords, filters) ==
    Len(SelectSeq(rows,
            LAMBDA row : WhereTable[ProductOf(row)][keywords][filters]))

\* mutant: the error replaced by an empty result
Reraise_default(op, raised, db_calls, failure) ==
    [set |-> TRUE, op |-> op, outcome |-> "returned", error |-> "",
     message |-> "", db_calls |-> db_calls + 1, failure |-> failure,
     products |-> <<>>, total_count |-> 0]

\* except Exception as e: logger.error(...); raise
Reraise(op, raised, db_calls, failure) ==
    [set |-> TRUE, op |-> op, outcome |-> "raised", error |-> raised.error,
     message |-> raised.message, db_calls |-> db_calls, failure |-> failure]

\* the arguments of the calls of this section
PlainRequests ==
    {r \in Requests : r.parsed_query = TestQuery /\ r.min_confidence.num = 0}

InitSearch ==
    /\ catalog \in Catalogs
    /\ request \in PlainRequests
    /\ response = Unset /\ conn = Unset
    /\ text = <<>> /\ word = <<>> /\ matched = Unset
    /\ product = Unset /\ parsed_query = Unset /\ scored = Unset

\* search: the row query and the count query both succeed
Search ==
    LET offset == (request.page - 1) * request.page_size
        result == ExecuteSelectPage(catalog, request.keywords, request.filters,
                                    request.page_size, offset)
        valid == \A i \in DOMAIN result : ProductValid(result[i])
        products == [i \in DOMAIN result |-> MakeProduct(result[i])]
        total_count == ExecuteCount(catalog, request.keywords, request.filters)
    IN  /\ ~response.set
        /\ response' =
              IF valid
              THEN [set |-> TRUE, op |-> "search", outcome |-> "returned",
                    error |-> "", message |-> "", db_calls |-> 2,
                    failure |-> NoFailure,
                    products |-> products, total_count |-> total_count]
              ELSE Reraise("search", [error |-> "ValidationError", message |-> ""],
                           1, NoFailure)
        /\ UNCHANGED <<catalog, request, conn, matcherVars, scorerVars>>

\* search: the row query fails
Search_RowQueryFails ==
    /\ ~response.set
    /\ \E cause \in StorageFailures :
          response' = Reraise("search", DbExecuteRaises(cause), 1,
                              [call |-> 1, cause |-> cause])
    /\ UNCHANGED <<catalog, request, conn, matcherVars, scorerVars>>

\* search: the row query succeeds and the count query of get_count fails;
\* get_count raises it again and so does search
Search_CountQueryFails ==
    LET offset == (request.page - 1) * request.page_size
        result == ExecuteSelectPage(catalog, request.keywords, request.filters,
                                    request.page_size, offset)
    IN  /\ ~response.set
        /\ \A i \in DOMAIN result : ProductValid(result[i])
        /\ \E cause \in StorageFailures :
              response' = Reraise("search", DbExecuteRaises(cause), 2,
                                  [call |-> 2, cause |-> cause])
        /\ UNCHANGED <<catalog, request, conn, matcherVars, scorerVars>>

\* get_count
GetCount ==
    /\ ~response.set
    /\ response' = [set |-> TRUE, op |-> "get_count", outcome |-> "returned",
                    error |-> "", message |-> "", db_calls |-> 1,
                    failure |-> NoFailure,
                    total_count |-> ExecuteCount(catalog, request.keywords,
                                                 request.filters)]
    /\ UNCHANGED <<catalog, request, conn, matcherVars, scorerVars>>

\* get_count: the count query fails
GetCount_StorageFails ==
    /\ ~response.set
    /\ \E cause \in StorageFailures :
          response' = Reraise("get_count", DbExecuteRaises(cause), 1,
                              [call |-> 1, cause |-> cause])
    /\ UNCHANGED <<catalog, request, conn, matcherVars, scorerVars>>

\* get_all_article_ids: the ids of every row that satisfies the WHERE clause
GetAllArticleIds ==
    LET result == ExecuteSelect(catalog, request.keywords, request.filters,
                                Len(catalog))
    IN  /\ ~response.set
        /\ response' = [set |-> TRUE, op |-> "get_all_article_ids",
                        outcome |-> "returned", error |-> "", message |-> "",
                        db_calls |-> 1, failure |-> NoFailure,
                        article_ids |-> [i \in DOMAIN result |-> result[i].article_id]]
        /\ UNCHANGED <<catalog, request, conn, matcherVars, scorerVars>>

\* get_all_article_ids: the query fails
GetAllArticleIds_StorageFails ==
    /\ ~response.set
    /\ \E cause \in StorageFailures :
          response' = Reraise("get_all_article_ids", DbExecuteRaises(cause), 1,
                              [call |-> 1, cause |-> cause])
    /\ UNCHANGED <<catalog, request, conn, matcherVars, scorerVars>>

NextSearch ==
    \/ Search \/ Search_RowQueryFails \/ Search_CountQueryFails
    \/ GetCount \/ GetCount_StorageFails
    \/ GetAllArticleIds \/ GetAllArticleIds_StorageFails
    \/ SearchWithConfidence \/ SearchWithConfidence_StorageFails

SpecSearch == InitSearch /\ [][NextSearch]_vars

-----------------------------------------------------------------------------
(* Claims about the plain path and about storage failures (SpecSearch)     *)

\* the call named op has ended
Ended(op) == response.set /\ response.op = op

Min(a, b) == IF a < b THEN a ELSE b
Max(a, b) == IF a > b THEN a ELSE b

\* C15: search returns as total_count the number of all catalog rows that
\* match the predicate, whatever page and page_size are, and as items the
\* matching rows from position (page-1)*page_size on, at most page_size of
\* them: len(items) = min(page_size, max(0, total_count - (page-1)*page_size)).
C15_PlainSearchCountAndPage ==
    Ended("search") =>
        LET offset == (request.page - 1) * request.page_size
        IN  /\ response.failure = NoFailure => response.outcome = "returned"
            /\ response.outcome = "returned" =>
                  /\ response.total_count = Len(MatchingRows)
                  /\ Len(response.products)
                        = Min(request.page_size,
                              Max(0, response.total_count - offset))
                  /\ \A k \in DOMAIN response.products :
                        response.products[k].article_id
                           = MatchingRows[offset + k].article_id

\* C15 witness: a second page that holds an item, of a search by keyword
\* that matches more rows than the page holds
C15_Witness ==
    /\ Ended("search")
    /\ response.outcome = "returned"
    /\ request.page = 2
    /\ request.keywords # <<>>
    /\ response.products # <<>>
    /\ response.total_count > Len(response.products)

\* C17: when a storage query of search, get_count, search_with_confidence
\* or get_all_article_ids fails, the call raises that error unchanged: the
\* query is not run again, no list or count is returned, and a count query
\* that fails after the row query of search succeeded fails the search.
C17_StorageFailurePropagates ==
    (response.set /\ response.failure.call > 0) =>
        /\ response.outcome = "raised"
        /\ response.error = "DatabaseException"
        /\ response.message = response.failure.cause
        /\ response.db_calls = response.failure.call
        /\ DOMAIN response \cap {"products", "total_count", "article_ids"} = {}

\* C17 witness: the count query of a search failed after its row query had
\* returned rows
C17_Witness ==
    /\ Ended("search")
    /\ response.failure.call = 2
    /\ response.outcome = "raised"
    /\ MatchingRows # <<>>

-----------------------------------------------------------------------------
(* ProductSearchService.get_all_article_ids_with_confidence                *)

\* candidate_limit = 1000
ANALYTICS_CANDIDATE_LIMIT == 1000

\* catalogs of a few rows and of about candidate_limit rows
IdsCatalogSizes == {2} \cup {ANALYTICS_CANDIDATE_LIMIT + d : d \in -1..MaxOver}

IdsRequests ==
    [set : {TRUE}, keywords : SearchKeywords,
     parsed_query : {TestQuery, IntBrandQuery}, filters : {NoFilters},
     min_confidence : {[num |-> n, den |-> 1000] : n \in {0, 310, 415}}]

InitIds ==
    /\ \E n \in IdsCatalogSizes : catalog = CatalogOfSize(n)
    /\ request \in IdsRequests
    /\ response = Unset /\ conn = Unset
    /\ text = <<>> /\ word = <<>> /\ matched = Unset
    /\ product = Unset /\ parsed_query = Unset /\ scored = Unset

\* [row[0] for row in result], [p['article_id'] for p in ...]
ArticleIdsOf(rows) ==
    CHOOSE ids \in {[i \in DOMAIN r |-> r[i].article_id] : r \in {rows}} : TRUE

\* the candidates with their scores sc: article_id and confidence_score
WithScores(candidates, sc) ==
    [i \in DOMAIN sc |-> [article_id |-> candidates[i].article_id,
                          confidence_score |-> sc[i]]]

\* get_all_article_ids_with_confidence when its storage query returns
GetAllArticleIdsWithConfidence ==
    /\ ~response.set
    /\ IF request.min_confidence.num = 0
       THEN \* if min_confidence == 0.0: return self.get_all_article_ids(...)
            \E result \in {ExecuteSelect(catalog, request.keywords,
                                         request.filters, Len(catalog))} :
              response' =
                  [set |-> TRUE, op |-> "get_all_article_ids_with_confidence",
                   outcome |-> "returned", error |-> "", message |-> "",
                   db_calls |-> 1, failure |-> NoFailure, scored |-> FALSE,
                   fetched_rows |-> Len(result),
                   article_ids |-> ArticleIdsOf(result)]
       ELSE \E candidates \in {ExecuteSelect(catalog, request.keywords,
                                  request.filters, ANALYTICS_CANDIDATE_LIMIT)} :
            \E results \in {[i \in DOMAIN candidates |->
                  ScoreTable[ProductOf(candidates[i])][request.parsed_query]]} :
              IF \E i \in DOMAIN results : results[i].raised
              THEN response' =
                     Reraise("get_all_article_ids_with_confidence",
                             [error |-> "AttributeError", message |-> ""],
                             1, NoFailure)
              ELSE \E sc \in ScoreChoices(results) :
                   \E scored_products \in {WithScores(candidates, sc)} :
                     response' =
                         [set |-> TRUE,
                          op |-> "get_all_article_ids_with_confidence",
                          outcome |-> "returned", error |-> "", message |-> "",
                          db_calls |-> 1, failure |-> NoFailure,
                          scored |-> TRUE,
                          fetched_rows |-> Len(candidates),
                          scored_products |-> scored_products,
                          article_ids |->
                              ArticleIdsOf(FilterByConfidence(scored_products,
                                               request.min_confidence))]
    /\ UNCHANGED <<catalog, request, conn, matcherVars, scorerVars>>

\* get_all_article_ids_with_confidence when its storage query fails
GetAllArticleIdsWithConfidence_StorageFails ==
    /\ ~response.set
    /\ \E cause \in StorageFailures :
          response' = Reraise("get_all_article_ids_with_confidence",
                              DbExecuteRaises(cause), 1,
                              [call |-> 1, cause |-> cause])
    /\ UNCHANGED <<catalog, request, conn, matcherVars, scorerVars>>

NextIds ==
    GetAllArticleIdsWithConfidence \/ GetAllArticleIdsWithConfidence_StorageFails

SpecIds == InitIds /\ [][NextIds]_vars

\* the call returned a list of ids
IdsReturned ==
    Ended("get_all_article_ids_with_confidence") /\ response.outcome = "returned"

\* C16 as stated: for every min_confidence in [0.0, 1.0] at most 1000
\* candidate rows are fetched and scored, and never more than 1000 ids are
\* returned.
C16_AtMostThousandIds ==
    IdsReturned =>
        /\ response.fetched_rows <= ANALYTICS_CANDIDATE_LIMIT
        /\ response.scored
        /\ Len(response.article_ids) <= ANALYTICS_CANDIDATE_LIMIT

\* C16 amended: for min_confidence > 0.0 at most 1000 rows are fetched and
\* scored and the ids returned are those of the fetched rows whose score is
\* >= min_confidence, in retrieval order; for min_confidence = 0.0 the ids
\* of all matching rows are returned, unscored and without a limit.
C16_ThousandIdsAboveZero ==
    IdsReturned =>
        IF request.min_confidence.num = 0
        THEN /\ ~response.scored
             /\ response.article_ids = ArticleIdsOf(MatchingRows)
        ELSE /\ response.scored
             /\ response.fetched_rows <= ANALYTICS_CANDIDATE_LIMIT
             /\ Len(response.article_ids) <= ANALYTICS_CANDIDATE_LIMIT
             /\ Len(response.scored_products) = response.fetched_rows
             /\ ArticleIdsOf(response.scored_products)
                   = ArticleIdsOf(Take(MatchingRows, ANALYTICS_CANDIDATE_LIMIT))
             /\ response.article_ids
                   = ArticleIdsOf(SelectSeq(response.scored_products,
                                     LAMBDA p : ScoreGE(p.confidence_score,
                                                        request.min_confidence)))

\* C16 witness: more than 1000 rows match, 1000 were fetched, and the ids of
\* those at or above a positive threshold were returned, fewer than fetched
C16_Witness ==
    /\ IdsReturned
    /\ request.min_confidence.num > 0
    /\ Len(MatchingRows) > ANALYTICS_CANDIDATE_LIMIT
    /\ response.fetched_rows = ANALYTICS_CANDIDATE_LIMIT
    /\ response.article_ids # <<>>
    /\ Len(response.article_ids) < response.fetched_rows

-----------------------------------------------------------------------------
(* ProductSearchService.get_by_id and the route get_product                *)

HTTP_200_OK == 200
HTTP_404_NOT_FOUND == 404
HTTP_500_INTERNAL_SERVER_ERROR == 500

\* the arguments of one call: article_id and include_sales of a lookup,
\* keywords, filters, page and page_size of a search
LookupRequests ==
    [set : {TRUE}, article_id : 1..(MaxCatalog + 1), include_sales : BOOLEAN,
     keywords : SearchKeywords, filters : SearchFilters,
     page : {1}, page_size : {MaxPageSize}]

InitLookup ==
    /\ catalog \in Catalogs
    /\ request \in LookupRequests
    /\ response = Unset /\ conn = Unset
    /\ text = <<>> /\ word = <<>> /\ matched = Unset
    /\ product = Unset /\ parsed_query = Unset /\ scored = Unset

\* SELECT ... WHERE article_id = ?
ExecuteLookup(rows, article_id) ==
    SelectSeq(rows, LAMBDA row : row.article_id = article_id)

\* get_by_id once the storage query has returned result: what it returns
\* or raises
GetByIdResult(result) ==
    IF result = <<>>
    THEN \* if not result: raise ProductNotFoundException; except: raise
         Reraise("get_by_id",
                 [error |-> "ProductNotFoundException", message |-> "not found"],
                 1, NoFailure)
    ELSE IF ~ProductValid(result[1])
    THEN Reraise("get_by_id", [error |-> "ValidationError", message |-> ""],
                 1, NoFailure)
    ELSE [set |-> TRUE, op |-> "get_by_id", outcome |-> "returned",
          error |-> "", message |-> "", db_calls |-> 1, failure |-> NoFailure,
          product |-> [MakeProduct(result[1]) EXCEPT
                          !.image_url = result[1].index_name]]

\* get_by_id when the storage query fails
GetByIdFailure(cause) ==
    Reraise("get_by_id", DbExecuteRaises(cause), 1, [call |-> 1, cause |-> cause])

\* get_by_id: the storage query returns
GetById ==
    /\ ~response.set
    /\ response' = GetByIdResult(ExecuteLookup(catalog, request.article_id))
    /\ UNCHANGED <<catalog, request, conn, matcherVars, scorerVars>>

\* get_by_id: the storage query fails
GetById_StorageFails ==
    /\ ~response.set
    /\ \E cause \in StorageFailures : response' = GetByIdFailure(cause)
    /\ UNCHANGED <<catalog, request, conn, matcherVars, scorerVars>>

\* except Exception as e: raise HTTPException(status_code=404,
\* detail=f"Product with ID {article_id} not found")
LookupRaised(lookup) ==
    [set |-> TRUE, op |-> "get_product", status |-> HTTP_404_NOT_FOUND,
     detail |-> "not found", db_calls |-> lookup.db_calls,
     failure |-> lookup.failure, lookup_error |-> lookup.error]

\* the rest of get_product after get_by_id has returned; sales_failure is
\* the failure of the query of get_summary, NoFailure if there is none
ProductDetail(lookup, include_sales, sales_failure) ==
    IF include_sales /\ sales_failure.call > 0
    THEN \* get_summary raises DatabaseException: database_handler
         [set |-> TRUE, op |-> "get_product",
          status |-> HTTP_500_INTERNAL_SERVER_ERROR, detail |-> "Database error",
          db_calls |-> lookup.db_calls + 1, failure |-> sales_failure,
          lookup_error |-> ""]
    ELSE [set |-> TRUE, op |-> "get_product", status |-> HTTP_200_OK,
          detail |-> "", failure |-> NoFailure,
          db_calls |-> lookup.db_calls + (IF include_sales THEN 1 ELSE 0),
          lookup_error |-> "", product |-> lookup.product]

\* GET /api/products/{article_id}: no storage query fails
GetProduct ==
    /\ ~response.set
    /\ \E lookup \in {GetByIdResult(ExecuteLookup(catalog, request.article_id))} :
          response' = IF lookup.outcome = "raised"
                      THEN LookupRaised(lookup)
                      ELSE ProductDetail(lookup, request.include_sales, NoFailure)
    /\ UNCHANGED <<catalog, request, conn, matcherVars, scorerVars>>

\* GET /api/products/{article_id}: the storage query of get_by_id fails
GetProduct_LookupFails ==
    /\ ~response.set
    /\ \E cause \in StorageFailures :
          response' = LookupRaised(GetByIdFailure(cause))
    /\ UNCHANGED <<catalog, request, conn, matcherVars, scorerVars>>

\* GET /api/products/{article_id}: get_by_id returns the product and the
\* storage query of get_summary fails
GetProduct_SalesFails ==
    /\ ~response.set
    /\ request.include_sales
    /\ \E lookup \in {GetByIdResult(ExecuteLookup(catalog, request.article_id))} :
          /\ lookup.outcome = "returned"
          /\ \E cause \in StorageFailures :
                response' = ProductDetail(lookup, TRUE,
                                          [call |-> 2, cause |-> cause])
    /\ UNCHANGED <<catalog, request, conn, matcherVars, scorerVars>>

NextLookup ==
    \/ GetById \/ GetById_StorageFails
    \/ GetProduct \/ GetProduct_LookupFails \/ GetProduct_SalesFails
    \/ Search \/ Search_RowQueryFails \/ Search_CountQueryFails

SpecLookup == InitLookup /\ [][NextLookup]_vars

\* the storage query of the lookup succeeded and returned zero rows
LookupFoundNoRow ==
    /\ ~(response.failure.call = 1)
    /\ ExecuteLookup(catalog, request.article_id) = <<>>

\* C18: a lookup by article_id is reported as NotFound exactly when its
\* storage query succeeded and returned zero rows, a storage failure during
\* the lookup is never reported as NotFound, and a search that matches zero
\* rows returns an empty list and total_count 0.
C18_NotFoundOnlyOnZeroRows ==
    /\ Ended("get_by_id") =>
          (response.error = "ProductNotFoundException" <=> LookupFoundNoRow)
    /\ Ended("get_product") =>
          /\ response.status = HTTP_404_NOT_FOUND <=> LookupFoundNoRow
          /\ response.failure.call > 0 => response.status # HTTP_404_NOT_FOUND
    /\ (Ended("search") /\ response.failure = NoFailure /\ MatchingRows = <<>>) =>
          /\ response.outcome = "returned"
          /\ response.products = <<>>
          /\ response.total_count = 0

-----------------------------------------------------------------------------
(* Calls that run concurrently on the shared DuckDBClient                  *)

\* the number of calls in flight
MaxRequests == 2
RequestIds == 1..MaxRequests

\* parsed queries whose weighted sum has one rounding
ConcurrentQueries == {TestQuery, EmptyQuery}

\* the calls: POST /api/search, search_with_confidence, score_product
ConcurrentCalls ==
    [kind : {"search"}, keywords : SearchKeywords, filters : {NoFilters},
     page : 1..MaxPage, page_size : {MaxPageSize},
     parsed_query : {EmptyQuery}, min_confidence : {[num |-> 0, den |-> 1000]},
     product : {NikeProduct}]
    \cup
    [kind : {"search_with_confidence"}, keywords : SearchKeywords,
     filters : {NoFilters}, page : {1}, page_size : {MaxPageSize},
     parsed_query : ConcurrentQueries,
     min_confidence : {[num |-> n, den |-> 1000] : n \in {0, 415}},
     product : {NikeProduct}]
    \cup
    [kind : {"score_product"}, keywords : {<<>>}, filters : {NoFilters},
     page : {1}, page_size : {MaxPageSize},
     parsed_query : ConcurrentQueries,
     min_confidence : {[num |-> 0, den |-> 1000]},
     product : {NikeProduct, JannikeProduct}]

\* get_db_client is cached: every call uses the one DuckDBClient, whose
\* connection holds nothing before the first query
InitConcurrent ==
    /\ catalog = CatalogOfSize(MaxCatalog)
    /\ request \in [RequestIds -> ConcurrentCalls]
    /\ response = [r \in RequestIds |-> [pc |-> "start"]]
    /\ conn = Unset
    /\ text = <<>> /\ word = <<>> /\ matched = Unset
    /\ product = Unset /\ parsed_query = Unset /\ scored = Unset

\* mutant: a result of the same statement that is still held is not replaced
ConnExecute_keeps_pending(c, owner, statement, result) ==
    IF c.set /\ c.statement = statement
    THEN c
    ELSE [set |-> TRUE, statement |-> statement, owner |-> owner, result |-> result]

\* result = self.conn.execute(query, params): the connection holds the
\* result of this query; owner is the call that ran it
ConnExecute(c, owner, statement, result) ==
    [set |-> TRUE, statement |-> statement, owner |-> owner, result |-> result]

\* result.fetchall()
ConnFetchall(c) == c.result

\* search on a connection found in state c: the row query, then the count
\* query of get_count
SearchCall(c, r, q) ==
    LET offset == (q.page - 1) * q.page_size
        c1 == ConnExecute(c, r, "select",
                  ExecuteSelectPage(catalog, q.keywords, q.filters,
                                    q.page_size, offset))
        result == ConnFetchall(c1)
        c2 == ConnExecute(c1, r, "count",
                  <<ExecuteCount(catalog, q.keywords, q.filters)>>)
        count == ConnFetchall(c2)
        valid == \A i \in DOMAIN result : ProductValid(result[i])
    IN  [conn |-> c2,
         read_from |-> {c1.owner, c2.owner},
         result |->
            IF valid
            THEN [outcome |-> "returned", error |-> "",
                  products |-> [i \in DOMAIN result |-> MakeProduct(result[i])],
                  total_count |-> IF count # <<>> THEN count[1] ELSE 0]
            ELSE [outcome |-> "raised", error |-> "ValidationError"]]

\* search_with_confidence on a connection found in state c
SearchWithConfidenceCall(c, r, q) ==
    LET c1 == ConnExecute(c, r, "select",
                  ExecuteSelect(catalog, q.keywords, q.filters,
                                CandidateLimit(q.page_size)))
        candidates == ConnFetchall(c1)
        results == [i \in DOMAIN candidates |->
                       ScoreTable[ProductOf(candidates[i])][q.parsed_query]]
        sc == CHOOSE x \in ScoreChoices(results) : TRUE
        l == SearchLocals(candidates, sc, q.page, q.page_size, q.min_confidence)
        valid == \A i \in DOMAIN l.paginated_products :
                    ProductValid(l.paginated_products[i])
        products == [i \in DOMAIN l.paginated_products |->
                        MakeProduct(l.paginated_products[i])]
        log_raises == products # <<>> /\ "confidence_score" \notin ProductFields
    IN  [conn |-> c1,
         read_from |-> {c1.owner},
         result |->
            IF \E i \in DOMAIN results : results[i].raised
            THEN [outcome |-> "raised", error |-> "AttributeError", scored |-> FALSE]
            ELSE [outcome |-> IF valid /\ ~log_raises THEN "returned" ELSE "raised",
                  error |-> IF ~valid THEN "ValidationError"
                            ELSE IF log_raises THEN "AttributeError" ELSE "",
                  scored |-> TRUE,
                  scored_products |-> l.scored_products,
                  total_count |-> l.total_count,
                  products |-> IF valid THEN products ELSE <<>>]]

\* ConfidenceScorer().score_product(product, parsed_query)
ScoreProductCall(q) ==
    LET res == ScoreTable[q.product][q.parsed_query]
    IN  IF res.raised
        THEN [outcome |-> "raised", error |-> res.error]
        ELSE [outcome |-> "returned", error |-> "",
              confidence |-> CHOOSE x \in res.confidences : TRUE]

\* search_products up to `await agent.parse_query(request.query)`: the
\* handler gives way to the other calls
ParseQuery(r) ==
    /\ request[r].kind = "search"
    /\ response[r].pc = "start"
    /\ response' = [response EXCEPT ![r] = [pc |-> "parsed", at_parse |-> conn]]
    /\ UNCHANGED <<catalog, request, conn, matcherVars, scorerVars>>

\* search_products from the search to its return; nothing is awaited, so
\* no other call runs in between
RunSearch(r) ==
    /\ request[r].kind = "search"
    /\ response[r].pc = "parsed"
    /\ \E call \in {SearchCall(conn, r, request[r])} :
          /\ response' = [response EXCEPT ![r] =
                             [pc |-> "done", at_parse |-> @.at_parse,
                              found |-> conn, read_from |-> call.read_from,
                              result |-> call.result]]
          /\ conn' = call.conn
    /\ UNCHANGED <<catalog, request, matcherVars, scorerVars>>

\* search_with_confidence: a function without await
RunSearchWithConfidence(r) ==
    /\ request[r].kind = "search_with_confidence"
    /\ response[r].pc = "start"
    /\ \E call \in {SearchWithConfidenceCall(conn, r, request[r])} :
          /\ response' = [response EXCEPT ![r] =
                             [pc |-> "done", at_parse |-> conn,
                              found |-> conn, read_from |-> call.read_from,
                              result |-> call.result]]
          /\ conn' = call.conn
    /\ UNCHANGED <<catalog, request, matcherVars, scorerVars>>

\* score_product: no storage query
RunScoreProduct(r) ==
    /\ request[r].kind = "score_product"
    /\ response[r].pc = "start"
    /\ response' = [response EXCEPT ![r] =
                       [pc |-> "done", at_parse |-> conn, found |-> conn,
                        read_from |-> {},
                        result |-> ScoreProductCall(request[r])]]
    /\ UNCHANGED <<catalog, request, conn, matcherVars, scorerVars>>

NextConcurrent ==
    \E r \in RequestIds :
        \/ ParseQuery(r)
        \/ RunSearch(r)
        \/ RunSearchWithConfidence(r)
        \/ RunScoreProduct(r)

SpecConcurrent == InitConcurrent /\ [][NextConcurrent]_vars

\* what the call r returns when it runs alone, on a connection that holds
\* nothing
Alone(r) ==
    CASE request[r].kind = "search" -> SearchCall(Unset, r, request[r]).result
      [] request[r].kind = "search_with_confidence" ->
            SearchWithConfidenceCall(Unset, r, request[r]).result
      [] OTHER -> ScoreProductCall(request[r])

Done(r) == response[r].pc = "done"

-----------------------------------------------------------------------------
(* The four sub-score functions called one at a time                       *)

DarkBlack == Dark \o <<" ">> \o Black

\* column values for a brand: the brand, a text that holds it as a word, a
\* text that holds it inside a longer word, a text without it, '' and NULL
BrandColumnValues == {Nike, NikeShoes, JannikeWedge, Divided, <<>>, NoneVal}

\* column values for a type: the type, a compound that ends with it, a text
\* without it, and NULL
TypeColumnValues == {Shoes, RunningHyphenShoes, Wedge, NoneVal}

\* column values for a color: the color, a text that holds it as a word, a
\* text without it, and NULL
ColorColumnValues == {Black, DarkBlack, Dark, NoneVal}

\* column values for the keywords
KeywordColumnValues == {NikeShoes, Nike, Shoes, Wedge, NoneVal}

\* a keyword list that names one keyword twice and another once
RepeatedKeywords == <<Nike, Nike, ShoesLower>>

BrandProducts ==
    {[EmptyProduct EXCEPT !.name = n, !.index_name = i, !.department = d] :
        n \in BrandColumnValues, i \in BrandColumnValues, d \in BrandColumnValues}

TypeProducts ==
    {[EmptyProduct EXCEPT !.type = t, !.name = n, !.product_group_name = pg,
                          !.garment_group_name = gg] :
        t \in TypeColumnValues, n \in TypeColumnValues,
        pg \in TypeColumnValues, gg \in TypeColumnValues}

ColorProducts ==
    {[EmptyProduct EXCEPT !.color = c, !.perceived_colour_master_name = m,
                          !.perceived_colour_value_name = v, !.name = n] :
        c \in ColorColumnValues, m \in ColorColumnValues,
        v \in ColorColumnValues, n \in ColorColumnValues}

KeywordProducts ==
    {[EmptyProduct EXCEPT !.name = n, !.type = t] :
        n \in KeywordColumnValues, t \in KeywordColumnValues}

\* one call of a sub-score function: product holds its first argument,
\* parsed_query the function and its second argument
InitSub ==
    /\ \/ /\ product \in BrandProducts
          /\ parsed_query \in [fn : {"_score_brand"},
                               expected : {Nike, NikeLower, NoneVal, <<>>, IntVal}]
       \/ /\ product \in TypeProducts
          /\ parsed_query \in [fn : {"_score_type"},
                               expected : {ShoesLower, Shoes, NoneVal, IntVal}]
       \/ /\ product \in ColorProducts
          /\ parsed_query \in [fn : {"_score_color"},
                               expected : {BlackLower, Black, NoneVal, IntVal}]
       \/ /\ product \in KeywordProducts
          /\ parsed_query \in [fn : {"_score_name"},
                               keywords : KeywordLists \cup {RepeatedKeywords}]
    /\ scored = Unset
    /\ text = <<>> /\ word = <<>> /\ matched = Unset
    /\ catalog = <<>> /\ request = Unset /\ response = Unset /\ conn = Unset

\* what the caller of an attribute sub-score function gets
SubScoreOutcome(fn, r) ==
    IF r.raised
    THEN [set |-> TRUE, fn |-> fn, raised |-> TRUE, error |-> r.error]
    ELSE [set |-> TRUE, fn |-> fn, raised |-> FALSE, value |-> r.value]

Call_score_brand ==
    /\ ~scored.set
    /\ parsed_query.fn = "_score_brand"
    /\ scored' = SubScoreOutcome("_score_brand",
                                 score_brand(product, parsed_query.expected))
    /\ UNCHANGED <<product, parsed_query, matcherVars, searchVars>>

Call_score_type ==
    /\ ~scored.set
    /\ parsed_query.fn = "_score_type"
    /\ scored' = SubScoreOutcome("_score_type",
                                 score_type(product, parsed_query.expected))
    /\ UNCHANGED <<product, parsed_query, matcherVars, searchVars>>

Call_score_color ==
    /\ ~scored.set
    /\ parsed_query.fn = "_score_color"
    /\ scored' = SubScoreOutcome("_score_color",
                                 score_color(product, parsed_query.expected))
    /\ UNCHANGED <<product, parsed_query, matcherVars, searchVars>>

Call_score_name ==
    /\ ~scored.set
    /\ parsed_query.fn = "_score_name"
    /\ \E r \in {score_name(product, parsed_query.keywords)} :
          scored' = [set |-> TRUE, fn |-> "_score_name", raised |-> FALSE,
                     num |-> r.num, den |-> r.den]
    /\ UNCHANGED <<product, parsed_query, matcherVars, searchVars>>

NextSub ==
    Call_score_brand \/ Call_score_type \/ Call_score_color \/ Call_score_name

SpecSub == InitSub /\ [][NextSub]_vars

\* the call of fn has ended with an attribute that the query specifies: a
\* str that is not empty
SpecifiedCall(fn) ==
    /\ scored.set /\ scored.fn = fn
    /\ IsStr(parsed_query.expected) /\ parsed_query.expected # <<>>

\* C22: with a brand specified, _score_brand returns 1.0 if the brand
\* word-matches the name; else 0.9 if it word-matches index_name; else 0.6
\* if it word-matches the department; else 0.0, whatever the later fields
\* contain.
C22_BrandFirstMatchingTier ==
    SpecifiedCall("_score_brand") =>
        /\ ~scored.raised
        /\ scored.value =
              (IF contains_word(product.name, parsed_query.expected) THEN 100
               ELSE IF contains_word(product.index_name, parsed_query.expected) THEN 90
               ELSE IF contains_word(product.department, parsed_query.expected) THEN 60
               ELSE 0)

\* C22 witness: the name holds the brand only inside a longer word, and
\* index_name and department both hold it as a word: 0.9
C22_Witness ==
    /\ SpecifiedCall("_score_brand")
    /\ product.name = JannikeWedge
    /\ product.index_name = Nike
    /\ product.department = NikeShoes
    /\ scored.value = 90

\* C23: with a type specified, _score_type returns 1.0 if the type field
\* exact-matches; else 0.95 if the type field fuzzy-matches; else 0.9 if the
\* name word-matches; else 0.7 if product_group fuzzy-matches; else 0.5 if
\* garment_group fuzzy-matches; else 0.0.
C23_TypeFirstMatchingTier ==
    SpecifiedCall("_score_type") =>
        /\ ~scored.raised
        /\ scored.value =
              (IF exact_match(product.type, parsed_query.expected) THEN 100
               ELSE IF fuzzy_contains(product.type, parsed_query.expected) THEN 95
               ELSE IF contains_word(product.name, parsed_query.expected) THEN 90
               ELSE IF fuzzy_contains(product.product_group_name,
                                      parsed_query.expected) THEN 70
               ELSE IF fuzzy_contains(product.garment_group_name,
                                      parsed_query.expected) THEN 50
               ELSE 0)

\* C23 witness: the type field is a compound that ends with the type, and
\* the name is the type itself: 0.95
C23_Witness ==
    /\ SpecifiedCall("_score_type")
    /\ product.type = RunningHyphenShoes
    /\ product.name = Shoes
    /\ scored.value = 95

\* C24: with a color specified, _score_color returns 1.0 if the color field
\* exact-matches; else 0.95 if the color field fuzzy-matches; else 0.9 if
\* perceived_colour_master_name fuzzy-matches; else 0.8 if
\* perceived_colour_value_name fuzzy-matches; else 0.7 if the name
\* word-matches; else 0.0.
C24_ColorFirstMatchingTier ==
    SpecifiedCall("_score_color") =>
        /\ ~scored.raised
        /\ scored.value =
              (IF exact_match(product.color, parsed_query.expected) THEN 100
               ELSE IF fuzzy_contains(product.color, parsed_query.expected) THEN 95
               ELSE IF fuzzy_contains(product.perceived_colour_master_name,
                                      parsed_query.expected) THEN 90
               ELSE IF fuzzy_contains(product.perceived_colour_value_name,
                                      parsed_query.expected) THEN 80
               ELSE IF contains_word(product.name, parsed_query.expected) THEN 70
               ELSE 0)

\* C24 witness: the color field does not hold the color, and both perceived
\* color fields do: 0.9
C24_Witness ==
    /\ SpecifiedCall("_score_color")
    /\ product.color = Dark
    /\ product.perceived_colour_master_name = DarkBlack
    /\ product.perceived_colour_value_name = Black
    /\ scored.value = 90

\* the keywords of the call that word-match field, counted with repetition
KeywordHits(field) ==
    Cardinality({i \in DOMAIN parsed_query.keywords :
                    contains_word(field, parsed_query.keywords[i])})

\* C25: _score_name returns 0.5 for an empty keyword list; otherwise
\* min(1.0, 0.7*nameRatio + 0.3*typeRatio) with the ratios of the keywords,
\* counted with repetition, that word-match the name and the type; the
\* result is in [0,1] and is 1.0 only when every keyword word-matches both.
C25_KeywordSubScore ==
    (scored.set /\ scored.fn = "_score_name") =>
        LET n == Len(parsed_query.keywords)
            in_name == KeywordHits(product.name)
            in_type == KeywordHits(product.type)
        IN  /\ ~scored.raised
            /\ scored.den > 0 /\ 0 <= scored.num /\ scored.num <= scored.den
            /\ n = 0 => 2 * scored.num = scored.den
            /\ n > 0 =>
                  /\ 7 * in_name + 3 * in_type <= 10 * n
                  /\ scored.num * 10 * n = (7 * in_name + 3 * in_type) * scored.den
                  /\ scored.num = scored.den <=> (in_name = n /\ in_type = n)

\* C25 witness: a keyword given twice that word-matches the name and not the
\* type, and no other keyword: 0.7
C25_Witness ==
    /\ scored.set /\ scored.fn = "_score_name"
    /\ Len(parsed_query.keywords) = 2
    /\ parsed_query.keywords[1] = parsed_query.keywords[2]
    /\ KeywordHits(product.name) = 2
    /\ KeywordHits(product.type) = 0
    /\ scored.num * 10 = 7 * scored.den

-----------------------------------------------------------------------------
(* ConfidenceScorer.score_products_batch                                   *)

\* the product dictionaries handed to the batch: the rows of a catalog
BatchRequests ==
    [set : {TRUE}, products : Catalogs, parsed_query : SearchQueries]

InitBatch ==
    /\ request \in BatchRequests
    /\ response = Unset /\ conn = Unset
    /\ catalog = <<>>
    /\ text = <<>> /\ word = <<>> /\ matched = Unset
    /\ product = Unset /\ parsed_query = Unset /\ scored = Unset

\* mutant: the score stored in the dictionary that was passed in
BatchEffect_in_place(products, sc) ==
    [inputs_after |-> [i \in DOMAIN products |-> WithScore(products[i], sc[i])],
     returned |-> [i \in DOMAIN products |-> WithScore(products[i], sc[i])]]

\* product_with_score = {**product, "confidence_score": confidence};
\* scored_products.append(product_with_score): what the loop leaves in the
\* list that was passed in, and the list it builds
BatchEffect(products, sc) ==
    [inputs_after |-> products,
     returned |-> [i \in DOMAIN products |-> WithScore(products[i], sc[i])]]

\* score_products_batch; request.products is the list that was passed in,
\* as it is after the call
ScoreProductsBatch ==
    /\ ~response.set
    /\ \E results \in {[i \in DOMAIN request.products |->
                          ScoreTable[ProductOf(request.products[i])]
                                    [request.parsed_query]]} :
          IF \E i \in DOMAIN results : results[i].raised
          THEN /\ response' = [set |-> TRUE, op |-> "score_products_batch",
                               outcome |-> "raised", error |-> "AttributeError",
                               inputs_before |-> request.products]
               /\ request' = request
          ELSE \E sc \in ScoreChoices(results) :
               \E effect \in {BatchEffect(request.products, sc)} :
                  /\ response' = [set |-> TRUE, op |-> "score_products_batch",
                                  outcome |-> "returned", error |-> "",
                                  inputs_before |-> request.products,
                                  scored_products |-> effect.returned]
                  /\ request' = [request EXCEPT !.products = effect.inputs_after]
    /\ UNCHANGED <<catalog, conn, matcherVars, scorerVars>>

NextBatch == ScoreProductsBatch

SpecBatch == InitBatch /\ [][NextBatch]_vars

\* C26: score_products_batch leaves the input list and its records
\* unchanged (no confidence field is added to them) and returns a list of
\* the same length and order whose i-th record has every field of the i-th
\* input plus confidence_score = score_product(i-th input, query).
C26_BatchLeavesInputsUnchanged ==
    Ended("score_products_batch") =>
        /\ request.products = response.inputs_before
        /\ \A i \in DOMAIN request.products :
              "confidence_score" \notin DOMAIN request.products[i]
        /\ WellFormedQuery(request.parsed_query) => response.outcome = "returned"
        /\ response.outcome = "returned" =>
              /\ Len(response.scored_products) = Len(response.inputs_before)
              /\ \A i \in DOMAIN response.inputs_before :
                    LET in == response.inputs_before[i]
                        out == response.scored_products[i]
                    IN  /\ DOMAIN out = DOMAIN in \cup {"confidence_score"}
                        /\ \A f \in DOMAIN in : out[f] = in[f]
                        /\ out.confidence_score
                              \in score_product(ProductOf(in),
                                                request.parsed_query).confidences

\* C26 witness: a batch of several products with different scores returned
C26_Witness ==
    /\ Ended("score_products_batch")
    /\ response.outcome = "returned"
    /\ Len(response.scored_products) = MaxCatalog
    /\ \E i, j \in DOMAIN response.scored_products :
          response.scored_products[i].confidence_score
             # response.scored_products[j].confidence_score

-----------------------------------------------------------------------------
(* Further claims about search_with_confidence (checked under Spec)        *)

\* C27 as stated: whenever the storage query succeeds and returns
\* well-formed rows, search_with_confidence returns (items, total_count)
\* without raising, for every page, page_size and min_confidence, also
\* when the page is not empty.
C27_ReturnsWithoutRaising ==
    (/\ response.set /\ response.fetched
     /\ \A i \in DOMAIN response.candidates : ProductValid(response.candidates[i])
     /\ WellFormedQuery(request.parsed_query)) =>
        /\ response.outcome = "returned"
        /\ Len(response.products) = Len(response.paginated_products)

-----------------------------------------------------------------------------
(* A caller that asks search_with_confidence for one page after another    *)

\* the arguments that stay the same from call to call
PagesRequests ==
    [set : {TRUE}, keywords : SearchKeywords, parsed_query : SearchQueries,
     filters : SearchFilters, page_size : 1..MaxPageSize,
     min_confidence : MinConfidences]

\* ceil(total_count / page_size)
PageCount(total_count, page_size) == (total_count + page_size - 1) \div page_size

InitPages ==
    /\ catalog \in Catalogs
    /\ request \in PagesRequests
    /\ response = [set |-> FALSE, op |-> "search_with_confidence",
                   calls |-> <<>>, sc |-> <<>>]
    /\ conn = Unset
    /\ text = <<>> /\ word = <<>> /\ matched = Unset
    /\ product = Unset /\ parsed_query = Unset /\ scored = Unset

\* what one call gives its caller once the filter, the sort and the slice
\* have produced the locals l: the Product objects are built, the log line
\* reads p.confidence_score when the page holds an item, and an exception
\* is logged and raised again
PageCall(page, l) ==
    LET valid == \A i \in DOMAIN l.paginated_products :
                    ProductValid(l.paginated_products[i])
        products == [i \in DOMAIN l.paginated_products |->
                        MakeProduct(l.paginated_products[i])]
        log_raises == products # <<>> /\ "confidence_score" \notin ProductFields
    IN  [page |-> page,
         outcome |-> IF valid /\ ~log_raises THEN "returned" ELSE "raised",
         error |-> IF ~valid THEN "ValidationError"
                   ELSE IF log_raises THEN "AttributeError" ELSE "",
         scored |-> TRUE,
         filtered_products |-> l.filtered_products,
         total_count |-> l.total_count,
         paginated_products |-> l.paginated_products,
         products |-> IF valid THEN products ELSE <<>>]

\* the pages the caller asks for: page 1, then every page up to
\* ceil(total_count / page_size)
MorePages ==
    IF response.calls = <<>> THEN TRUE
    ELSE /\ response.calls[1].scored
         /\ Len(response.calls)
               < PageCount(response.calls[1].total_count, request.page_size)

\* search_with_confidence(page = Len(calls) + 1) over the same catalog; the
\* storage query returns the rows in the same order at every call, and
\* round() gives a candidate the same score at every call
SearchNextPage ==
    LET page == Len(response.calls) + 1
        candidates ==
            ExecuteSelect(catalog, request.keywords, request.filters,
                          CandidateLimit(request.page_size))
        results ==
            [i \in DOMAIN candidates |->
                ScoreTable[ProductOf(candidates[i])][request.parsed_query]]
    IN  /\ MorePages
        /\ IF \E i \in DOMAIN results : results[i].raised
           THEN response' =
                  [response EXCEPT !.set = TRUE,
                      !.calls = Append(@, [page |-> page, outcome |-> "raised",
                                           error |-> "AttributeError",
                                           scored |-> FALSE])]
           ELSE \E sc \in ScoreChoices(results) :
                /\ response.calls = <<>> \/ sc = response.sc
                /\ response' =
                     [response EXCEPT !.set = TRUE, !.sc = sc,
                         !.calls = Append(@,
                             PageCall(page,
                                 SearchLocals(candidates, sc, page,
                                              request.page_size,
                                              request.min_confidence)))]
        /\ UNCHANGED <<catalog, request, conn, matcherVars, scorerVars>>

NextPages == SearchNextPage

SpecPages == InitPages /\ [][NextPages]_vars

\* every page from 1 to ceil(total_count / page_size) has been asked for
AllPagesAsked == response.calls # <<>> /\ ~MorePages

RECURSIVE Concat(_)
\* the concatenation of a sequence of lists
Concat(lists) ==
    IF lists = <<>> THEN <<>> ELSE Head(lists) \o Concat(Tail(lists))

\* C28 as stated: the calls for page 1 up to ceil(total_count / page_size)
\* all report the same total_count, and their item lists, one after the
\* other, are the whole filtered, ranked list: every candidate that passed
\* the threshold is on exactly one page.
C28_PagesPartitionRankedList ==
    (AllPagesAsked /\ WellFormedQuery(request.parsed_query)) =>
        /\ \A k \in DOMAIN response.calls :
              /\ response.calls[k].outcome = "returned"
              /\ response.calls[k].total_count = response.calls[1].total_count
        /\ LET items == Concat([k \in DOMAIN response.calls |->
                                    response.calls[k].products])
               ranked == response.calls[1].filtered_products
           IN  [i \in DOMAIN items |-> items[i].article_id]
                  = [i \in DOMAIN ranked |-> ranked[i].article_id]

\* the slices the calls compute before they build their Product objects,
\* one after the other, are the ranked list, and every call computes the
\* same total_count
ComputedSlicesPartitionRankedList ==
    (AllPagesAsked /\ response.calls[1].scored) =>
        /\ \A k \in DOMAIN response.calls :
              /\ response.calls[k].total_count = response.calls[1].total_count
              /\ response.calls[k].filtered_products
                    = response.calls[1].filtered_products
        /\ Concat([k \in DOMAIN response.calls |->
                      response.calls[k].paginated_products])
              = response.calls[1].filtered_products

-----------------------------------------------------------------------------
(* search_with_confidence called with a threshold and then a higher one    *)

\* the pairs <<m1, m2>> of thresholds with m1 <= m2
ThresholdPairs ==
    {pair \in MinConfidences \X MinConfidences : ScoreGE(pair[2], pair[1])}

ThresholdRequests ==
    [set : {TRUE}, keywords : SearchKeywords, parsed_query : SearchQueries,
     filters : {NoFilters}, page : 1..MaxPage, page_size : 1..MaxPageSize,
     thresholds : ThresholdPairs]

InitThreshold ==
    /\ catalog \in Catalogs
    /\ request \in ThresholdRequests
    /\ response = [set |-> FALSE, op |-> "search_with_confidence",
                   calls |-> <<>>, sc |-> <<>>]
    /\ conn = Unset
    /\ text = <<>> /\ word = <<>> /\ matched = Unset
    /\ product = Unset /\ parsed_query = Unset /\ scored = Unset

\* search_with_confidence(min_confidence = m1), then the same call with
\* min_confidence = m2, over the same catalog; round() gives a candidate
\* the same score at both calls
SearchAtThreshold ==
    LET call == Len(response.calls) + 1
        candidates ==
            ExecuteSelect(catalog, request.keywords, request.filters,
                          CandidateLimit(request.page_size))
        results ==
            [i \in DOMAIN candidates |->
                ScoreTable[ProductOf(candidates[i])][request.parsed_query]]
    IN  /\ call <= 2
        /\ IF \E i \in DOMAIN results : results[i].raised
           THEN response' =
                  [response EXCEPT !.set = TRUE,
                      !.calls = Append(@, [page |-> request.page,
                                           outcome |-> "raised",
                                           error |-> "AttributeError",
                                           scored |-> FALSE])]
           ELSE \E sc \in ScoreChoices(results) :
                /\ response.calls = <<>> \/ sc = response.sc
                /\ response' =
                     [response EXCEPT !.set = TRUE, !.sc = sc,
                         !.calls = Append(@,
                             PageCall(request.page,
                                 SearchLocals(candidates, sc, request.page,
                                              request.page_size,
                                              request.thresholds[call])))]
        /\ UNCHANGED <<catalog, request, conn, matcherVars, scorerVars>>

NextThreshold == SearchAtThreshold

SpecThreshold == InitThreshold /\ [][NextThreshold]_vars

\* both calls have filtered and sorted their candidates
BothRanked ==
    /\ Len(response.calls) = 2
    /\ response.calls[1].scored /\ response.calls[2].scored

\* C29: with m1 <= m2 and everything else equal, the total_count computed
\* at m2 is at most the total_count computed at m1, and the ranked list at
\* m2 is a prefix of the ranked list at m1; when the call at m1 returns, the
\* call at m2 returns too.
C29_RaisingThresholdNeverAdds ==
    BothRanked =>
        LET at_m1 == response.calls[1]
            at_m2 == response.calls[2]
        IN  /\ at_m2.total_count <= at_m1.total_count
            /\ at_m1.total_count = Len(at_m1.filtered_products)
            /\ at_m2.total_count = Len(at_m2.filtered_products)
            /\ at_m2.filtered_products
                  = SubSeq(at_m1.filtered_products, 1, at_m2.total_count)
            /\ at_m1.outcome = "returned" => at_m2.outcome = "returned"

\* C29 witness: the higher threshold removed some candidates and kept
\* others, and the sort had moved a later candidate to the front
C29_Witness ==
    /\ BothRanked
    /\ request.thresholds[1] # request.thresholds[2]
    /\ 0 < response.calls[2].total_count
    /\ response.calls[2].total_count < response.calls[1].total_count
    /\ response.calls[1].filtered_products[1].article_id # 1

-----------------------------------------------------------------------------
(* A query without attributes and keywords (checked under Spec)            *)

\* the query specifies no brand, no type and no color, and its keyword list
\* is empty
NoConstraint(q) ==
    /\ q.attributes_kind \in {"dict", "absent"}
    /\ \A key \in {"brand", "type", "color"} : Unspecified(q, key)
    /\ q.keywords = <<>>

\* 0.5
Half == [num |-> 500, den |-> 1000]

\* what score_product gives for the products of the model and the queries
\* without constraint
NoConstraintScores ==
    {score_product(p, q) : p \in Products, q \in {q \in ParsedQueries : NoConstraint(q)}}

\* C30: for a query that specifies no brand, no type and no color and has no
\* keyword, score_product returns exactly 0.5 whatever the candidate's
\* fields; search_with_confidence with that query keeps every fetched
\* candidate, in retrieval order, when min_confidence <= 0.5 and keeps none
\* when min_confidence > 0.5.
C30_NoConstraintScoresHalf ==
    /\ \A r \in NoConstraintScores : ~r.raised /\ r.confidences = {Half}
    /\ (response.set /\ response.fetched /\ NoConstraint(request.parsed_query)) =>
          /\ response.scored
          /\ \A i \in DOMAIN response.scored_products :
                response.scored_products[i].confidence_score = Half
          /\ [i \in DOMAIN response.scored_products |->
                 response.scored_products[i].article_id]
                = [i \in DOMAIN response.candidates |->
                      response.candidates[i].article_id]
          /\ ScoreGE(Half, request.min_confidence) =>
                /\ response.filtered_products = response.scored_products
                /\ response.total_count = Len(response.candidates)
          /\ ~ScoreGE(Half, request.min_confidence) =>
                /\ response.filtered_products = <<>>
                /\ response.total_count = 0

\* C30 witness: candidates with different fields, a query without
\* constraint and min_confidence exactly 0.5: all are kept
C30_Witness ==
    /\ response.set /\ response.fetched /\ response.scored
    /\ NoConstraint(request.parsed_query)
    /\ request.min_confidence = Half
    /\ Len(response.candidates) = MaxCatalog
    /\ \E i, j \in DOMAIN response.candidates :
          ProductOf(response.candidates[i]) # ProductOf(response.candidates[j])
    /\ Len(response.filtered_products) = MaxCatalog

====
